---- MODULE Spec2Model ----
(***************************************************************************)
(* Model of the deployment core of the CDK toolkit library                 *)
(* (packages/@aws-cdk/toolkit-lib/lib/api): Deployments.rollbackStack and  *)
(* deployStack, the asset operations of Deployments with their two caches, *)
(* addMetadataAssetsToManifest, and the ResourceImporter.                  *)
(*                                                                         *)
(* Each operation is a process with its own variables, its own position    *)
(* and its own specification.  The remote service, the event poller, the   *)
(* activity monitor, the stabilization wait and the user are the           *)
(* environment: whatever they may answer is a nondeterministic choice in   *)
(* the action that consumes the answer.                                    *)
(***************************************************************************)

EXTENDS Integers, Sequences, FiniteSets, TLC

\* ------------------------------------------------------------------ bounds

\* Longest list of resource errors one poll of the event poller returns.
MaxPolledErrors == 2

\* Longest list of errors the activity monitor collects during one wait.
MaxMonitorErrors == 2

\* Number of buildSingleAsset / publishSingleAsset / isSingleAssetPublished
\* calls made on one Deployments instance; they run concurrently.
MaxCalls == 2

\* Longest list of metadata assets of a stack (stack.assets).
MaxAssets == 2

\* Longest list of resource changes between the deployed and the desired
\* template (diff.resources.changes).
MaxChanges == 2

\* Longest list of importable resources handed to askForResourceIdentifiers.
MaxResources == 2

\* ------------------------------------------------------- program constants

\* deployments.ts:474  let maxLoops = 10;
MaxLoops == 10

\* deployments.ts:40
BOOTSTRAP_STACK_VERSION_FOR_ROLLBACK == 23

\* ------------------------------------------------------------ value spaces

\* RollbackChoice (api/stack-events), the four members the switch handles.
RollbackChoice == {"NONE", "START_ROLLBACK", "CONTINUE_UPDATE_ROLLBACK", "ROLLBACK_FAILED"}

\* What rollbackStack reads of a CloudFormationStack: whether it exists
\* (stackId throws when it does not) and, of its StackStatus, the derived
\* rollbackChoice and isRollbackSuccess.
CloudFormationStack ==
    [exists : BOOLEAN, rollbackChoice : RollbackChoice, isRollbackSuccess : BOOLEAN]

\* The value of a variable that holds no stack yet.
NoStack == [exists |-> FALSE, rollbackChoice |-> "NONE", isRollbackSuccess |-> FALSE]

\* The stack name (options.stack.stackName) of the invocation.
deployName == "Stack1"

\* An event whose LogicalResourceId is undefined.
NoLogicalId == "<undefined>"

\* A resource error of StackEventPoller.resourceErrors, as far as it is read.
ResourceError ==
    [isStackEvent : BOOLEAN,
     parentStackLogicalIds : {<<>>, <<"Nested">>},
     LogicalResourceId : {"A", NoLogicalId}]

\* All sequences over S of length at most n.
SeqUpTo(S, n) == UNION {[1..k -> S] : k \in 0..n}

\* RollbackStackOptions, as far as rollbackStack reads them.
RollbackStackOptions ==
    [orphanFailedResources : BOOLEAN,
     orphanLogicalIds : {<<>>, <<"A">>, <<"A", "B">>},
     validateBootstrapStackVersion : BOOLEAN]

\* Messages of the errors the collaborators may throw.
EnvErrorMessage == "Could not assume role"
VersionErrorMessage == "This CDK deployment requires bootstrap stack version '23'"
LookupErrorMessage == "DescribeStacks failed"
NoStackIdMessage == "Cannot retrieve stackId from a non-existent stack"
PlaceholderErrorMessage == "Could not resolve placeholders"
RemoteErrorMessage == "ValidationError"
PollErrorMessage == "DescribeStackEvents failed"
WaitErrorMessage == "The stack is in a failed state"
MonitorErrorTexts == {"e1"}

CombineErrorMessage == "Cannot combine --force with --orphan"
DisappearedMessage ==
    "Stack deploy failed (the stack disappeared while we were rolling it back)"
RecourseSuffix ==
    " (fix problem and retry, or orphan these resources using --orphan or --force)"
NoProgressMessage ==
    "Rollback did not finish after a large number of iterations; stopping because it looks like we're not making progress anymore. You can retry if rollback was progressing as expected."

\* ------------------------------------------------------------------- state

VARIABLES
    pc,                  \* position of the invocation in rollbackStack
    options,             \* the RollbackStackOptions of the invocation
    resourcesToSkip,     \* let resourcesToSkip
    maxLoops,            \* let maxLoops
    cloudFormationStack, \* const cloudFormationStack (this iteration's lookup)
    monitor,             \* the StackActivityMonitor of this iteration
    stackErrorMessage,   \* let stackErrorMessage ("" is undefined)
    finalStackState,     \* let finalStackState
    result,              \* what the invocation returned or threw
    cfn,                 \* the remote service as seen by this invocation
    uuids,               \* number of UUIDs randomUUID() has handed out
    iter,                \* what the current loop iteration has done so far
    deploy,              \* one invocation of Deployments.deployStack
    publisherCache,      \* this.publisherCache: manifest -> publisher (0: no entry)
    publishers,          \* number of AssetPublishing objects constructed so far
    assetPublishing,     \* the AssetPublishing objects, by order of construction
    allowCrossAccountAssetPublishing,
                         \* this._allowCrossAccountAssetPublishing
    determineCalls,      \* invocations of determineAllowCrossAccountAssetPublishing
    calls,               \* the asset calls made on the instance, by call number
    prep,                \* one invocation of addMetadataAssetsToManifest
    discovery,           \* one invocation of discoverImportableResources
    asking,              \* one invocation of askForResourceIdentifiers
    importing,           \* loadResourceIdentifiers, then importResourcesFromMap
    stackParams,         \* one resolution of the template's parameters
    accountCache,        \* the cache file of an AccountAccessKeyCache and its callers
    diff                 \* one comparison by deepEqual

\* The variables of one invocation of rollbackStack.
rollbackVars == <<pc, options, resourcesToSkip, maxLoops, cloudFormationStack, monitor,
                  stackErrorMessage, finalStackState, result, cfn, uuids, iter>>

\* The variables of the asset calls on one Deployments instance.
publishVars == <<publisherCache, publishers, assetPublishing,
                 allowCrossAccountAssetPublishing, determineCalls, calls>>

vars == <<pc, options, resourcesToSkip, maxLoops, cloudFormationStack, monitor,
          stackErrorMessage, finalStackState, result, cfn, uuids, iter, deploy,
          publishVars, prep, discovery, asking, importing, stackParams,
          accountCache, diff>>

\* The variables an invocation of rollbackStack leaves alone.
notRollbackVars ==
    <<deploy, publishVars, prep, discovery, asking, importing, stackParams,
      accountCache, diff>>

\* The variables an invocation of deployStack leaves alone.
notDeployVars ==
    <<rollbackVars, publishVars, prep, discovery, asking, importing, stackParams,
      accountCache, diff>>

\* The variables the asset calls leave alone.
notPublishVars ==
    <<rollbackVars, deploy, prep, discovery, asking, importing, stackParams,
      accountCache, diff>>

\* The variables addMetadataAssetsToManifest leaves alone.
notPrepVars ==
    <<rollbackVars, deploy, publishVars, discovery, asking, importing, stackParams,
      accountCache, diff>>

\* The variables discoverImportableResources leaves alone.
notDiscoveryVars ==
    <<rollbackVars, deploy, publishVars, prep, asking, importing, stackParams,
      accountCache, diff>>

\* The variables askForResourceIdentifiers leaves alone.
notAskingVars ==
    <<rollbackVars, deploy, publishVars, prep, discovery, importing, stackParams,
      accountCache, diff>>

\* The variables loadResourceIdentifiers and importResourcesFromMap leave
\* alone; they read the additions discoverImportableResources returned.
notImportingVars ==
    <<rollbackVars, deploy, publishVars, prep, discovery, asking, stackParams,
      accountCache, diff>>

\* The variables the parameter resolution leaves alone.
notStackParamsVars ==
    <<rollbackVars, deploy, publishVars, prep, discovery, asking, importing,
      accountCache, diff>>

NoOptions ==
    [orphanFailedResources |-> FALSE, orphanLogicalIds |-> <<>>,
     validateBootstrapStackVersion |-> FALSE]

NoRequest ==
    [kind |-> "none", ClientRequestToken |-> 0, RetainExceptOnCreate |-> FALSE,
     ResourcesToSkip |-> <<>>, rejected |-> FALSE]

\* DeployStackOptions, as far as Deployments.deployStack reads them: the
\* bootstrap version the stack requires (0 when it requires none), and whether
\* deploymentMethod and the legacy changeSetName/execute are supplied.
DeployStackOptions ==
    [requiresBootstrapStackVersion : {0, 6, 30},
     deploymentMethod : BOOLEAN,
     legacyChangeSet : BOOLEAN]

NoDeploy ==
    [pc |-> "idle",
     options |-> [requiresBootstrapStackVersion |-> 0, deploymentMethod |-> FALSE,
                  legacyChangeSet |-> FALSE],
     envAccesses |-> 0, versionChecks |-> 0, requiredVersion |-> 0,
     versionFailed |-> FALSE, submissions |-> 0,
     result |-> [kind |-> "none", message |-> ""]]

NoMonitor == [state |-> "none", errors |-> <<>>]

NoPoll == [polled |-> FALSE, stackStatuses |-> {}, resourceErrors |-> <<>>]

NoIter ==
    [lookups |-> 0, lookedUp |-> NoStack, rollbacks |-> 0, continues |-> 0,
     monitorsStarted |-> 0, action |-> "none", poll |-> NoPoll, wait |-> "none"]

NoResult == [kind |-> "none", message |-> ""]

\* The asset manifest objects the callers hold (object identities).
Manifests == {"manifest1", "manifest2"}

Calls == 1 .. MaxCalls

\* A call that has not been made yet.  publisher is the publisher the call
\* got from cachedPublisher (0: none yet), allowCrossAccount the value it
\* passed to publishEntry.  differs says, while the call works with its
\* publisher, that it passed cachedPublisher another environment or stack
\* name than the publisher was constructed with; error is the message of the
\* ToolkitError the call threw for a failure of the publisher, and failed
\* says that the entry of this call was one that failed.
NoCall ==
    [pc |-> "idle", operation |-> "none", assetManifest |-> "none", publisher |-> 0,
     allowCrossAccount |-> "undefined", determined |-> FALSE,
     differs |-> FALSE, error |-> "", failed |-> FALSE]

PublishInit ==
    /\ publisherCache = [m \in Manifests |-> 0]
    /\ publishers = 0
    /\ assetPublishing = [p \in Calls |-> [env |-> "none", prefix |-> <<>>,
                                            hasFailures |-> FALSE]]
    /\ allowCrossAccountAssetPublishing = "undefined"
    /\ determineCalls = 0
    /\ calls = [c \in Calls |-> NoCall]

\* Strings of the asset metadata are sequences of characters, so that
\* concatenation, path.extname and String.replace are computed, not assumed.
\* An optional string is Undefined or Some(string); Some(<<>>) is ''.
Undefined == <<>>
Some(string) == <<string>>

\* cxschema.AssetMetadataEntry: file assets, container-image assets, and an
\* entry whose packaging this version of the toolkit does not know.  The
\* paths are dir, a.txt, l.tar.gz, .env and v.2/bin.
AssetMetadataEntries ==
    LET AssetIds == {<<"h", "1">>, <<"M", ":", "y", "/", "A">>}
        SourceHashes == {<<"h", "1">>, <<"h", "2">>}
        AssetPaths ==
           {<<"d", "i", "r">>,
            <<"a", ".", "t", "x", "t">>,
            <<"l", ".", "t", "a", "r", ".", "g", "z">>,
            <<".", "e", "n", "v">>,
            <<"v", ".", "2", "/", "b", "i", "n">>}
        OptionalNames == {Undefined, Some(<<>>), Some(<<"r", "/", "n">>)}
        FileAssets ==
           [packaging : {"zip", "file"}, id : AssetIds, sourceHash : SourceHashes,
            path : AssetPaths, imageNameParameter : {Undefined},
            repositoryName : {Undefined}, imageTag : {Undefined}]
        ContainerImageAssets ==
           [packaging : {"container-image"}, id : AssetIds,
            sourceHash : {<<"h", "1">>}, path : {<<"d", "i", "r">>},
            imageNameParameter : OptionalNames, repositoryName : OptionalNames,
            imageTag : OptionalNames]
        UnknownAssets ==
           [packaging : {"tarball"}, id : {<<"h", "1">>}, sourceHash : {<<"h", "1">>},
            path : {<<"d", "i", "r">>}, imageNameParameter : {Undefined},
            repositoryName : {Undefined}, imageTag : {Undefined}]
    IN  FileAssets \cup ContainerImageAssets \cup UnknownAssets

NoAsset ==
    [packaging |-> "none", id |-> <<>>, sourceHash |-> <<>>, path |-> <<>>,
     imageNameParameter |-> Undefined, repositoryName |-> Undefined,
     imageTag |-> Undefined]

\* No call of assetManifest.addFileAsset / addDockerImageAsset.
NoEntry ==
    [kind |-> "none", sourceHash |-> <<>>, path |-> <<>>, packaging |-> "none",
     objectKey |-> <<>>, repositoryName |-> <<>>, imageTag |-> <<>>]

\* The errors addMetadataAssetsToManifest may throw.
AssetErrorMessages ==
    [toolkitNotFound |->
        "This stack uses assets, so the toolkit stack must be deployed to the environment",
     noAssembly |->
        "Unexpected: stack assembly is required in order to find assets in assembly directory",
     unsupportedPackaging |-> "Unsupported packaging type",
     invalidDocker |-> "Invalid Docker image asset configuration",
     prepareEcrRepository |-> "CreateRepository failed"]

\* addMetadataAssetsToManifest not yet called.  remaining counts the assets
\* the loop has not reached; asset is the one it is at; entry the manifest
\* entry added for it and requested the repository prepared for it;
\* fileAssets, dockerImages and repositories count the entries added and the
\* repositories prepared since the call began.
NoPrep ==
    [pc |-> "idle", hasAssembly |-> FALSE, remaining |-> 0, asset |-> NoAsset,
     entry |-> NoEntry, requested |-> Undefined,
     fileAssets |-> 0, dockerImages |-> 0, repositories |-> 0,
     result |-> [kind |-> "none", message |-> ""]]

\* Object.entries(diff.resources.changes): entries with distinct logical
\* ids, in the order of the object's keys.  An entry has the logical id, the
\* kind of change (isAddition is kind = "add") and, for an addition, the
\* DeletionPolicy of the resource in the desired template ("" when none).
ResourceChangeLists ==
    LET LogicalIds == {"CDKMetadata", "Bucket", "Queue", "Topic"}
        ResourceChangeEntries ==
           [logicalId : LogicalIds, kind : {"add"}, DeletionPolicy : {"", "Delete"}]
              \cup [logicalId : LogicalIds, kind : {"update", "remove"},
                    DeletionPolicy : {""}]
    IN  {changes \in UNION {[1 .. n -> ResourceChangeEntries] : n \in 0 .. MaxChanges} :
            \A i, j \in 1 .. Len(changes) :
               changes[i].logicalId = changes[j].logicalId => i = j}

\* The errors the ResourceImporter may throw.
ImportErrorMessages ==
    [readCurrentTemplate |-> "GetTemplate failed",
     noUpdates |-> "No resource updates or deletes are allowed on import operation",
     resourceIdentifierSummaries |-> "GetTemplateSummary failed",
     readJson |-> "ENOENT: no such file or directory",
     deployStack |-> "The stack failed to deploy",
     assertIsSuccessfulDeployStackResult |-> "Unexpected deployStack result"]

\* discoverImportableResources not yet called.
NoDiscovery ==
    [pc |-> "idle", allowNonAdditions |-> FALSE, changes |-> <<>>,
     additions |-> <<>>, hasNonAdditions |-> FALSE, warnings |-> <<>>,
     result |-> [kind |-> "none", message |-> "", offendingResources |-> <<>>]]

\* Names of resource properties (strings are sequences of characters).
PropertyNames == {<<"A">>, <<"B">>, <<"C">>}

\* ResourceIdentifierSummary: ResourceType ("" when missing) and
\* ResourceIdentifiers (Undefined when missing).  The identifier strings are
\* sequences of characters: "A"; "A" and "B,C"; "A,B" and "B,C".
ResourceIdentifierSummaries ==
    LET IdentifierLists ==
           {<< <<"A">> >>,
            << <<"A">>, <<"B", ",", "C">> >>,
            << <<"A", ",", "B">>, <<"B", ",", "C">> >>}
    IN  [ResourceType : {"", "AWS::S3::Bucket"},
         ResourceIdentifiers : {Undefined} \cup {Some(list) : list \in IdentifierLists}]

\* ImportableResource, as far as askForResourceIdentifier reads it:
\* resourceDiff.newResourceType ("" is undefined) and
\* resourceDefinition.Properties, each property missing, a CFN intrinsic (an
\* object) or a literal string (possibly empty).  The logical id is the
\* position in the list.
ImportableResources ==
    LET PropertyValues ==
           {[type |-> "undefined", value |-> ""], [type |-> "object", value |-> ""],
            [type |-> "string", value |-> ""], [type |-> "string", value |-> "v"]}
    IN  [newResourceType : {"AWS::S3::Bucket"},
         Properties : [PropertyNames -> PropertyValues]]
           \cup [newResourceType : {"", "AWS::SQS::Queue"},
                 Properties : {[p \in PropertyNames |->
                                   [type |-> "undefined", value |-> ""]]}]

\* The empty object {}: a function with no keys.
EmptyObject == [key \in {} |-> ""]

\* askForResourceIdentifiers not yet called.  ret is the ImportMap under
\* construction; resource .. identifier belong to the resource the loop is
\* at: confirmations and prompts list the questions put to the user for it.
NoAsking ==
    [pc |-> "idle", remaining |-> 0, logicalId |-> 0, summaries |-> <<>>,
     resourceIdentifiers |-> EmptyObject,
     ret |-> [importResources |-> <<>>, resourceMap |-> EmptyObject],
     resource |-> [newResourceType |-> "",
                   Properties |-> [p \in PropertyNames |->
                                      [type |-> "undefined", value |-> ""]]],
     resourceProps |-> EmptyObject,
     idPropSets |-> <<>>, satisfiedPropSets |-> <<>>,
     set |-> 0, prop |-> 0, input |-> EmptyObject,
     confirmations |-> <<>>, prompts |-> <<>>,
     outcome |-> "none", identifier |-> EmptyObject,
     result |-> [kind |-> "none", message |-> ""]]

\* loadResourceIdentifiers not yet called.  available is the list of
\* candidates and _currentTemplate the deployed template the importer holds
\* (Resources: logical id -> resource, or Undefined); file is the mapping file
\* as read and contents the object the loop deletes from; i is the position
\* of the loop; ret is the ImportMap; log lists the messages to the ioHelper;
\* deployStack is the request submitted to the deployment (sent: FALSE when
\* there is none).
NoImporting ==
    [pc |-> "idle", available |-> <<>>, _currentTemplate |-> [Resources |-> <<>>],
     deployed |-> [Resources |-> <<>>], file |-> EmptyObject, contents |-> EmptyObject, i |-> 0,
     ret |-> [importResources |-> <<>>, resourceMap |-> EmptyObject],
     log |-> <<>>,
     deployStack |-> [sent |-> FALSE, deployName |-> "",
                      overrideTemplate |-> [Resources |-> <<>>],
                      resourcesToImport |-> <<>>],
     result |-> [kind |-> "none", message |-> ""]]

\* The variables the operations on the account cache leave alone.
notAccountCacheVars ==
    <<rollbackVars, deploy, publishVars, prep, discovery, asking, importing,
      stackParams, diff>>

\* The variables deepEqual leaves alone.
notDiffVars ==
    <<rollbackVars, deploy, publishVars, prep, discovery, asking, importing,
      stackParams, accountCache>>

\* TemplateParameters.fromTemplate not yet called.  formalParams are the
\* parameters the template declares; updates and parameters (the parameters
\* of the deployed stack, key -> value) are what the values are resolved
\* from; values and apiParameters are the fields of the ParameterValues;
\* hasChanges is "none" until hasChanges() has answered.
NoStackParams ==
    [pc |-> "idle", formalParams |-> EmptyObject, usePreviousParameters |-> FALSE,
     updates |-> EmptyObject, parameters |-> EmptyObject,
     values |-> EmptyObject, apiParameters |-> <<>>, hasChanges |-> "none",
     result |-> [kind |-> "none", message |-> <<>>]]

\* No AccountAccessKeyCache constructed yet.  cacheFile is the file at
\* this.cacheFile: missing, not JSON ("corrupt"), or a JSON object ("map")
\* whose entries are map (the entries under the access keys the callers use)
\* and others more entries under other access keys.  callers are the
\* operations in flight on the cache, each with the map it holds (its local
\* variable map, in the same two parts) and what it returned or threw.
\* started counts the operations begun.  The rest records the history:
\* latest is, per access key, the account of the last put that returned
\* since the map was last discarded for its size; overlapped says that two
\* operations have been in flight together; suppressed says that an
\* operation went on after the file could not be read or written; discards
\* says that a put that returned had discarded the map.
NoAccountCache ==
    [pc |-> "new",
     cacheFile |-> [kind |-> "missing", map |-> EmptyObject, others |-> 0],
     callers |-> [p \in {1, 2} |->
                    [pc |-> "idle", op |-> "none", accessKeyId |-> "",
                     account |-> Undefined, map |-> EmptyObject, others |-> 0,
                     discarded |-> FALSE,
                     result |-> [kind |-> "none", value |-> Undefined]]],
     started |-> 0,
     latest |-> EmptyObject,
     overlapped |-> FALSE, suppressed |-> FALSE, discards |-> FALSE]

\* deepEqual not yet called.  lvalue and rvalue are the DependsOn values of
\* the two objects compared: a single logical id, or an array of them.
NoDiff ==
    [pc |-> "idle", lvalue |-> [isArray |-> FALSE, items |-> <<>>],
     rvalue |-> [isArray |-> FALSE, items |-> <<>>], result |-> FALSE]

Init ==
    /\ PublishInit
    /\ accountCache = NoAccountCache
    /\ diff = NoDiff
    /\ importing = NoImporting
    /\ stackParams = NoStackParams
    /\ prep = NoPrep
    /\ discovery = NoDiscovery
    /\ asking = NoAsking
    /\ pc = "idle"
    /\ options = NoOptions
    /\ resourcesToSkip = <<>>
    /\ maxLoops = 0
    /\ cloudFormationStack = NoStack
    /\ monitor = NoMonitor
    /\ stackErrorMessage = ""
    /\ finalStackState = NoStack
    /\ result = NoResult
    /\ deploy = NoDeploy
    /\ cfn = [envAccesses |-> 0, versionChecks |-> 0, lookups |-> 0,
              versionFailed |-> FALSE,
              requiredVersion |-> 0, tokens |-> <<>>, lastRequest |-> NoRequest,
              activeMonitors |-> 0, iterations |-> 0]
    /\ uuids = 0
    /\ iter = NoIter

\* ----------------------------------------------------------------- helpers

\* Array.prototype.join(', ') on a list of strings.
RECURSIVE Join(_)
Join(errors) ==
    IF Len(errors) = 0 THEN ""
    ELSE IF Len(errors) = 1 THEN Head(errors)
    ELSE Head(errors) \o ", " \o Join(Tail(errors))

\* deployments.ts:728  function suffixWithErrors(msg, errors)
suffixWithErrors(msg, errors) ==
    IF Len(errors) > 0 THEN msg \o ": " \o Join(errors) ELSE msg

\* A string is truthy when it is not empty (undefined is modelled as "").
Truthy(str) == str # ""

\* One token computed once and sent with every request.
reusedUUID == IF uuids = 0 THEN 1 ELSE cfn.tokens[1]

\* crypto.randomUUID(): a value no earlier call returned. The n-th call of the
\* invocation returns n.
randomUUID == uuids + 1

\* r.event.LogicalResourceId ?? ''
LogicalIdOrEmpty(r) ==
    IF r.LogicalResourceId = NoLogicalId THEN "" ELSE r.LogicalResourceId

\* The filter without the check of the nested-stack parent chain.
IsResourceError(r) == ~r.isStackEvent

\* deployments.ts:508  (r) => !r.isStackEvent && r.parentStackLogicalIds.length === 0
IsTopLevelResourceError(r) ==
    ~r.isStackEvent /\ Len(r.parentStackLogicalIds) = 0

\* deployments.ts:507-509  poller.resourceErrors.filter(...).map(...)
FailedResourcesToSkip(resourceErrors) ==
    LET kept == SelectSeq(resourceErrors, IsTopLevelResourceError)
    IN  [i \in 1..Len(kept) |-> LogicalIdOrEmpty(kept[i])]

\* deployments.ts:504  the statuses the poller is restricted to
PollerStackStatuses == {"ROLLBACK_IN_PROGRESS", "UPDATE_ROLLBACK_IN_PROGRESS"}

\* The loop test written as a comparison that lets one more iteration through.
LoopConditionOffByOne(n) == n >= 0

\* deployments.ts:475  the truthiness test of while (maxLoops--)
LoopCondition(n) == n # 0

\* The success test with "and" in place of "or".
RollbackSucceededBoth(final, message) ==
    final.isRollbackSuccess /\ ~Truthy(message)

\* deployments.ts:561  finalStackState.stackStatus.isRollbackSuccess || !stackErrorMessage
RollbackSucceeded(final, message) ==
    final.isRollbackSuccess \/ ~Truthy(message)

\* The loop-again test without the check of the caller's option.
ShouldLoopAgainAlways(final, opts) ==
    final.rollbackChoice = "CONTINUE_UPDATE_ROLLBACK"

\* Every failure of the action is followed by another iteration.
ShouldLoopAgainOnFailure(final, opts) == final.exists

\* deployments.ts:566  the condition of "do another loop-de-loop"
ShouldLoopAgain(final, opts) ==
    final.rollbackChoice = "CONTINUE_UPDATE_ROLLBACK" /\ opts.orphanFailedResources

\* throw new ToolkitError(msg), or an error of a collaborator propagating
Throw(msg) ==
    /\ pc' = "thrown"
    /\ result' = [kind |-> "error", message |-> msg]

\* return { stackArn, success: true } / { stackArn, notInRollbackableState: true }
Return(kind) ==
    /\ pc' = "returned"
    /\ result' = [kind |-> kind, message |-> ""]

\* The stacks a lookup or a stabilization wait may hand back.
ExistingStacks == {s \in CloudFormationStack : s.exists}

\* ----------------------------------------------------------------- actions

\* The validation with the length test off by one.
InvalidOrphanOptionsOffByOne(o) ==
    o.orphanFailedResources /\ Len(o.orphanLogicalIds) > 1

\* deployments.ts:455  the options that must not be combined
InvalidOrphanOptions(o) ==
    o.orphanFailedResources /\ Len(o.orphanLogicalIds) > 0

\* deployments.ts:453-457  entry of rollbackStack and its validation
rollbackStack(o) ==
    /\ pc = "idle"
    /\ options' = o
    /\ resourcesToSkip' = o.orphanLogicalIds
    /\ IF InvalidOrphanOptions(o)
         THEN Throw(CombineErrorMessage)
         ELSE pc' = "accessStack" /\ result' = result
    /\ UNCHANGED <<maxLoops, cloudFormationStack, monitor, stackErrorMessage,
                   finalStackState, cfn, uuids, iter>>

\* deployments.ts:459  await this.envs.accessStackForMutableStackOperations(...)
accessStackForMutableStackOperations ==
    /\ pc = "accessStack"
    /\ cfn' = [cfn EXCEPT !.envAccesses = @ + 1]
    /\ \/ pc' = "validateVersion" /\ result' = result
       \/ Throw(EnvErrorMessage)
    /\ UNCHANGED <<options, resourcesToSkip, maxLoops, cloudFormationStack, monitor,
                   stackErrorMessage, finalStackState, uuids, iter>>

\* The error of the version check passed on without the stack name.
UnprefixedVersionError(stackName, message) == message

\* deployments.ts:687-692  catch (e) { throw new ToolkitError(`${stackName}: ...`) }
PrefixedVersionError(stackName, message) == stackName \o ": " \o message

\* deployments.ts:461-474 (and 682-693)  the bootstrap version check, skipped
\* when options.validateBootstrapStackVersion is false; then let maxLoops = 10
validateBootstrapStackVersion ==
    /\ pc = "validateVersion"
    /\ IF options.validateBootstrapStackVersion
         THEN \E versionOk \in BOOLEAN :
                /\ cfn' = [cfn EXCEPT !.versionChecks = @ + 1,
                                      !.requiredVersion = BOOTSTRAP_STACK_VERSION_FOR_ROLLBACK,
                                      !.versionFailed = ~versionOk]
                /\ IF versionOk
                     THEN pc' = "loop" /\ result' = result /\ maxLoops' = MaxLoops
                     ELSE /\ Throw(PrefixedVersionError(deployName, VersionErrorMessage))
                          /\ maxLoops' = maxLoops
         ELSE /\ cfn' = cfn
              /\ pc' = "loop" /\ result' = result /\ maxLoops' = MaxLoops
    /\ UNCHANGED <<options, resourcesToSkip, cloudFormationStack, monitor,
                   stackErrorMessage, finalStackState, uuids, iter>>

\* The loop that gives up silently when the iterations are used up.
whileMaxLoopsSilent ==
    /\ pc = "loop"
    /\ maxLoops' = maxLoops - 1
    /\ monitor' = NoMonitor
    /\ stackErrorMessage' = ""
    /\ finalStackState' = NoStack
    /\ iter' = NoIter
    /\ IF maxLoops # 0
         THEN /\ pc' = "lookup" /\ result' = result
              /\ cfn' = [cfn EXCEPT !.iterations = @ + 1]
         ELSE /\ Return("success")
              /\ cfn' = cfn
    /\ UNCHANGED <<options, resourcesToSkip, cloudFormationStack, uuids>>

\* deployments.ts:475 and 575-577  while (maxLoops--) { ... } throw ...;
\* the variables declared in the loop body go out of scope here
whileMaxLoops ==
    /\ pc = "loop"
    /\ maxLoops' = maxLoops - 1
    /\ monitor' = NoMonitor
    /\ stackErrorMessage' = ""
    /\ finalStackState' = NoStack
    /\ iter' = NoIter
    /\ IF LoopCondition(maxLoops)
         THEN /\ pc' = "lookup" /\ result' = result
              /\ cfn' = [cfn EXCEPT !.iterations = @ + 1]
         ELSE /\ Throw(NoProgressMessage)
              /\ cfn' = cfn
    /\ UNCHANGED <<options, resourcesToSkip, cloudFormationStack, uuids>>

\* The lookup hoisted out of the loop: later iterations reuse the first answer.
lookupOnce ==
    /\ pc = "lookup"
    /\ IF cfn.iterations > 1
         THEN /\ pc' = "replacePlaceholders"
              /\ UNCHANGED <<cfn, cloudFormationStack, iter, result>>
         ELSE /\ cfn' = [cfn EXCEPT !.lookups = @ + 1]
              /\ \E s \in ExistingStacks :
                   /\ cloudFormationStack' = s
                   /\ iter' = [iter EXCEPT !.lookups = @ + 1, !.lookedUp = s]
                   /\ pc' = "replacePlaceholders" /\ result' = result
    /\ UNCHANGED <<options, resourcesToSkip, maxLoops, monitor, stackErrorMessage,
                   finalStackState, uuids>>

\* deployments.ts:476-477  CloudFormationStack.lookup and the read of stackId
\* (fake-cloudformation-stack.ts:43-48: stackId throws for a missing stack)
lookup ==
    /\ pc = "lookup"
    /\ cfn' = [cfn EXCEPT !.lookups = @ + 1]
    /\ \/ \E s \in ExistingStacks \cup {NoStack} :
            /\ cloudFormationStack' = s
            /\ iter' = [iter EXCEPT !.lookups = @ + 1, !.lookedUp = s]
            /\ IF s.exists
                 THEN pc' = "replacePlaceholders" /\ result' = result
                 ELSE Throw(NoStackIdMessage)
       \/ /\ Throw(LookupErrorMessage)
          /\ iter' = [iter EXCEPT !.lookups = @ + 1]
          /\ cloudFormationStack' = cloudFormationStack
    /\ UNCHANGED <<options, resourcesToSkip, maxLoops, monitor, stackErrorMessage,
                   finalStackState, uuids>>

\* deployments.ts:479  await env.replacePlaceholders(...)
replacePlaceholders ==
    /\ pc = "replacePlaceholders"
    /\ \/ pc' = "switch" /\ result' = result
       \/ Throw(PlaceholderErrorMessage)
    /\ UNCHANGED <<options, resourcesToSkip, maxLoops, cloudFormationStack, monitor,
                   stackErrorMessage, finalStackState, cfn, uuids, iter>>

\* case NONE without its return: control falls through into START_ROLLBACK.
caseNoneFallsThrough ==
    /\ pc = "switch"
    /\ cloudFormationStack.rollbackChoice = "NONE"
    /\ uuids' = uuids + 1
    /\ cfn' = [cfn EXCEPT !.tokens = Append(@, randomUUID),
                          !.lastRequest = [kind |-> "rollbackStack",
                                           ClientRequestToken |-> randomUUID,
                                           RetainExceptOnCreate |-> TRUE,
                                           ResourcesToSkip |-> <<>>,
                                           rejected |-> FALSE]]
    /\ pc' = "monitor" /\ result' = result
    /\ iter' = [iter EXCEPT !.rollbacks = @ + 1, !.action = "startRollback"]
    /\ UNCHANGED <<options, resourcesToSkip, maxLoops, cloudFormationStack, monitor,
                   stackErrorMessage, finalStackState>>

\* deployments.ts:482-484  case RollbackChoice.NONE
caseNone ==
    /\ pc = "switch"
    /\ cloudFormationStack.rollbackChoice = "NONE"
    /\ Return("notInRollbackableState")
    /\ iter' = [iter EXCEPT !.action = "notRollbackable"]
    /\ UNCHANGED <<options, resourcesToSkip, maxLoops, cloudFormationStack, monitor,
                   stackErrorMessage, finalStackState, cfn, uuids>>

\* deployments.ts:488-494  the request of cfn.rollbackStack
RollbackStackRequest ==
    [kind |-> "rollbackStack", ClientRequestToken |-> randomUUID,
     RetainExceptOnCreate |-> TRUE, ResourcesToSkip |-> <<>>, rejected |-> FALSE]

\* deployments.ts:514-519  the request of cfn.continueUpdateRollback
ContinueUpdateRollbackRequest ==
    [kind |-> "continueUpdateRollback", ClientRequestToken |-> randomUUID,
     RetainExceptOnCreate |-> FALSE, ResourcesToSkip |-> resourcesToSkip,
     rejected |-> FALSE]

\* A rejected request taken for an accepted one: the error is swallowed.
SendIgnoringRejection(req) ==
    /\ uuids' = uuids + 1
    /\ \E accepted \in BOOLEAN :
         cfn' = [cfn EXCEPT !.tokens = Append(@, req.ClientRequestToken),
                            !.lastRequest = [req EXCEPT !.rejected = ~accepted]]
    /\ pc' = "monitor" /\ result' = result

\* The service receives a mutating request; it may reject it, and the
\* rejection propagates (deployments.ts:488 and 514: the calls are awaited
\* outside any try block).
Send(req) ==
    /\ uuids' = uuids + 1
    /\ \E accepted \in BOOLEAN :
         /\ cfn' = [cfn EXCEPT !.tokens = Append(@, req.ClientRequestToken),
                               !.lastRequest = [req EXCEPT !.rejected = ~accepted]]
         /\ IF accepted
              THEN pc' = "monitor" /\ result' = result
              ELSE Throw(RemoteErrorMessage)

\* deployments.ts:486-495  case RollbackChoice.START_ROLLBACK
caseStartRollback ==
    /\ pc = "switch"
    /\ cloudFormationStack.rollbackChoice = "START_ROLLBACK"
    /\ Send(RollbackStackRequest)
    /\ iter' = [iter EXCEPT !.rollbacks = @ + 1, !.action = "startRollback"]
    /\ UNCHANGED <<options, resourcesToSkip, maxLoops, cloudFormationStack, monitor,
                   stackErrorMessage, finalStackState>>

\* deployments.ts:497-510  case RollbackChoice.CONTINUE_UPDATE_ROLLBACK with
\* options.orphanFailedResources: poll the events, derive the skip list
pollFailedResources ==
    /\ pc = "switch"
    /\ cloudFormationStack.rollbackChoice = "CONTINUE_UPDATE_ROLLBACK"
    /\ options.orphanFailedResources
    /\ \/ \E errors \in SeqUpTo(ResourceError, MaxPolledErrors) :
            /\ iter' = [iter EXCEPT !.poll = [polled |-> TRUE,
                                              stackStatuses |-> PollerStackStatuses,
                                              resourceErrors |-> errors]]
            /\ resourcesToSkip' = FailedResourcesToSkip(errors)
            /\ pc' = "continueUpdateRollback" /\ result' = result
       \/ /\ Throw(PollErrorMessage)
          /\ UNCHANGED <<iter, resourcesToSkip>>
    /\ UNCHANGED <<options, maxLoops, cloudFormationStack, monitor, stackErrorMessage,
                   finalStackState, cfn, uuids>>

\* deployments.ts:512-520  case RollbackChoice.CONTINUE_UPDATE_ROLLBACK, the request
caseContinueUpdateRollback ==
    /\ \/ pc = "continueUpdateRollback"
       \/ /\ pc = "switch"
          /\ cloudFormationStack.rollbackChoice = "CONTINUE_UPDATE_ROLLBACK"
          /\ ~options.orphanFailedResources
    /\ Send(ContinueUpdateRollbackRequest)
    /\ iter' = [iter EXCEPT !.continues = @ + 1, !.action = "continueRollback"]
    /\ UNCHANGED <<options, resourcesToSkip, maxLoops, cloudFormationStack, monitor,
                   stackErrorMessage, finalStackState>>

\* deployments.ts:522-526  case RollbackChoice.ROLLBACK_FAILED
caseRollbackFailed ==
    /\ pc = "switch"
    /\ cloudFormationStack.rollbackChoice = "ROLLBACK_FAILED"
    /\ Return("notInRollbackableState")
    /\ iter' = [iter EXCEPT !.action = "notRollbackable"]
    /\ UNCHANGED <<options, resourcesToSkip, maxLoops, cloudFormationStack, monitor,
                   stackErrorMessage, finalStackState, cfn, uuids>>

\* deployments.ts:532-538  new StackActivityMonitor(...); await monitor.start()
monitorStart ==
    /\ pc = "monitor"
    /\ monitor' = [state |-> "started", errors |-> <<>>]
    /\ cfn' = [cfn EXCEPT !.activeMonitors = @ + 1]
    /\ iter' = [iter EXCEPT !.monitorsStarted = @ + 1, !.poll = NoPoll]
    /\ pc' = "stabilize"
    /\ UNCHANGED <<options, resourcesToSkip, maxLoops, cloudFormationStack,
                   stackErrorMessage, finalStackState, result, uuids>>

\* What the try and catch blocks leave behind, for each outcome of the wait.
TryCatch(errors) ==
    /\ monitor' = [monitor EXCEPT !.errors = errors]
    /\ \/ \E successStack \in ExistingStacks :
            /\ finalStackState' = successStack
            /\ stackErrorMessage' = Join(errors)
            /\ iter' = [iter EXCEPT !.wait = "returned"]
       \/ /\ finalStackState' = cloudFormationStack
          /\ stackErrorMessage' = suffixWithErrors(DisappearedMessage, errors)
          /\ iter' = [iter EXCEPT !.wait = "undefined"]
       \/ /\ finalStackState' = cloudFormationStack
          /\ stackErrorMessage' = suffixWithErrors(WaitErrorMessage, errors)
          /\ iter' = [iter EXCEPT !.wait = "threw"]

\* The wait with monitor.stop() at the end of the try block instead of in a
\* finally block: a wait that throws skips it.
stabilizeStackNoFinally ==
    /\ pc = "stabilize"
    /\ \E errors \in SeqUpTo(MonitorErrorTexts, MaxMonitorErrors) : TryCatch(errors)
    /\ pc' = IF iter'.wait = "returned" THEN "finally" ELSE "decide"
    /\ UNCHANGED <<options, resourcesToSkip, maxLoops, cloudFormationStack, result,
                   cfn, uuids>>

\* deployments.ts:540-556  the try and catch blocks around stabilizeStack: the
\* wait hands back the stable stack, hands back undefined, or throws; the
\* monitor has collected its errors by then
stabilizeStack ==
    /\ pc = "stabilize"
    /\ \E errors \in SeqUpTo(MonitorErrorTexts, MaxMonitorErrors) : TryCatch(errors)
    /\ pc' = "finally"
    /\ UNCHANGED <<options, resourcesToSkip, maxLoops, cloudFormationStack, result,
                   cfn, uuids>>

\* deployments.ts:557-559  finally { await monitor.stop(); }
monitorStop ==
    /\ pc = "finally"
    /\ monitor' = [monitor EXCEPT !.state = "stopped"]
    /\ cfn' = [cfn EXCEPT !.activeMonitors = @ - 1]
    /\ pc' = "decide"
    /\ UNCHANGED <<options, resourcesToSkip, maxLoops, cloudFormationStack,
                   stackErrorMessage, finalStackState, result, uuids, iter>>

\* deployments.ts:561-573  return success, loop again, or throw
decide ==
    /\ pc = "decide"
    /\ IF RollbackSucceeded(finalStackState, stackErrorMessage)
         THEN Return("success")
         ELSE IF ShouldLoopAgain(finalStackState, options)
                THEN pc' = "loop" /\ result' = result
                ELSE Throw(stackErrorMessage \o RecourseSuffix)
    /\ UNCHANGED <<options, resourcesToSkip, maxLoops, cloudFormationStack, monitor,
                   stackErrorMessage, finalStackState, cfn, uuids, iter>>

\* The errors deployStack may throw itself.
DeployErrorMessages ==
    [bothMethods |->
        "You cannot supply both 'deploymentMethod' and 'changeSetName/execute'",
     deployStack |-> "The stack failed to deploy",
     missingValue |-> "The following CloudFormation Parameters are missing a value"]

\* deployments.ts:404-409  both ways of naming the deployment method supplied
BothDeploymentMethods(o) == o.legacyChangeSet /\ o.deploymentMethod

\* deployments.ts:400-415  entry of deployStack and the check of its options
deployStack(o) ==
    /\ deploy.pc = "idle"
    /\ deploy' = IF BothDeploymentMethods(o)
                   THEN [deploy EXCEPT !.options = o, !.pc = "thrown",
                            !.result = [kind |-> "error", message |-> DeployErrorMessages.bothMethods]]
                   ELSE [deploy EXCEPT !.options = o, !.pc = "accessStack"]

\* deployments.ts:417  await this.envs.accessStackForMutableStackOperations(...)
deployAccessStack ==
    /\ deploy.pc = "accessStack"
    /\ \/ deploy' = [deploy EXCEPT !.envAccesses = @ + 1, !.pc = "validateVersion"]
       \/ deploy' = [deploy EXCEPT !.envAccesses = @ + 1, !.pc = "thrown",
                        !.result = [kind |-> "error", message |-> EnvErrorMessage]]

\* deployments.ts:419-424 (and 682-693)  the bootstrap version check with the
\* version the stack artifact requires
deployValidateVersion ==
    /\ deploy.pc = "validateVersion"
    /\ \E versionOk \in BOOLEAN :
         deploy' =
           [deploy EXCEPT
              !.versionChecks = @ + 1,
              !.requiredVersion = deploy.options.requiresBootstrapStackVersion,
              !.versionFailed = ~versionOk,
              !.pc = IF versionOk THEN "replacePlaceholders" ELSE "thrown",
              !.result = IF versionOk THEN @
                         ELSE [kind |-> "error",
                               message |-> PrefixedVersionError(deployName,
                                                                VersionErrorMessage)]]

\* deployments.ts:426  await env.replacePlaceholders(...)
deployReplacePlaceholders ==
    /\ deploy.pc = "replacePlaceholders"
    /\ \/ deploy' = [deploy EXCEPT !.pc = "submit"]
       \/ deploy' = [deploy EXCEPT !.pc = "thrown",
                        !.result = [kind |-> "error", message |-> PlaceholderErrorMessage]]

\* deployments.ts:428-450  return deployStack({...}): the submission, which
\* ends in one of the three result variants or throws
deploySubmit ==
    /\ deploy.pc = "submit"
    /\ \/ \E kind \in {"did-deploy-stack", "failpaused-need-rollback-first",
                        "replacement-requires-rollback"} :
            deploy' = [deploy EXCEPT !.submissions = @ + 1, !.pc = "returned",
                          !.result = [kind |-> kind, message |-> ""]]
       \/ deploy' = [deploy EXCEPT !.submissions = @ + 1, !.pc = "thrown",
                        !.result = [kind |-> "error", message |-> DeployErrorMessages.deployStack]]

Next ==
    \/ (\E o \in RollbackStackOptions : rollbackStack(o)) /\ UNCHANGED notRollbackVars
    \/ accessStackForMutableStackOperations /\ UNCHANGED notRollbackVars
    \/ validateBootstrapStackVersion /\ UNCHANGED notRollbackVars
    \/ whileMaxLoops /\ UNCHANGED notRollbackVars
    \/ lookup /\ UNCHANGED notRollbackVars
    \/ replacePlaceholders /\ UNCHANGED notRollbackVars
    \/ caseNone /\ UNCHANGED notRollbackVars
    \/ caseStartRollback /\ UNCHANGED notRollbackVars
    \/ pollFailedResources /\ UNCHANGED notRollbackVars
    \/ caseContinueUpdateRollback /\ UNCHANGED notRollbackVars
    \/ caseRollbackFailed /\ UNCHANGED notRollbackVars
    \/ monitorStart /\ UNCHANGED notRollbackVars
    \/ stabilizeStack /\ UNCHANGED notRollbackVars
    \/ monitorStop /\ UNCHANGED notRollbackVars
    \/ decide /\ UNCHANGED notRollbackVars

Spec == Init /\ [][Next]_vars

\* One operation of the Deployments object at a time: an invocation of
\* rollbackStack or an invocation of deployStack.
OperationNext ==
    \/ deploy.pc = "idle" /\ Next
    \/ pc = "idle" /\ (\E o \in DeployStackOptions : deployStack(o))
                   /\ UNCHANGED notDeployVars
    \/ deployAccessStack /\ UNCHANGED notDeployVars
    \/ deployValidateVersion /\ UNCHANGED notDeployVars
    \/ deployReplacePlaceholders /\ UNCHANGED notDeployVars
    \/ deploySubmit /\ UNCHANGED notDeployVars

OperationSpec == Init /\ [][OperationNext]_vars

\* -------------------------------------------------------------- type check

Done == pc \in {"returned", "thrown"}

TypeOK ==
    /\ pc \in {"idle", "accessStack", "validateVersion", "loop", "lookup",
               "replacePlaceholders", "switch", "continueUpdateRollback", "monitor",
               "stabilize", "finally", "decide", "returned", "thrown"}
    /\ options \in RollbackStackOptions
    /\ maxLoops \in -1..MaxLoops
    /\ cloudFormationStack \in CloudFormationStack
    /\ finalStackState \in CloudFormationStack
    /\ monitor.state \in {"none", "started", "stopped"}
    /\ result.kind \in {"none", "success", "notInRollbackableState", "error"}
    /\ uuids = Len(cfn.tokens)

\* ============================================================== properties

\* The statuses this iteration's lookup returned.
LookedUpChoice == iter.lookedUp.rollbackChoice

\* The iteration has looked the stack up and found it.
LookedUp == iter.lookups = 1 /\ iter.lookedUp.exists

\* The iteration has not reached its switch statement, or never will because
\* replacePlaceholders threw.
BeforeSwitch ==
    \/ pc \in {"replacePlaceholders", "switch"}
    \/ pc = "thrown" /\ result.message = PlaceholderErrorMessage

\* The decision at the end of an iteration (deployments.ts:561-573) was taken.
Decided == monitor.state = "stopped" /\ pc # "decide"

\* The mutating action of the iteration ended in failure.
ActionFailed == Truthy(stackErrorMessage) /\ ~finalStackState.isRollbackSuccess

\* C1: in one invocation of rollbackStack the number of mutating calls issued
\* (rollbackStack plus continueUpdateRollback requests) never exceeds 10.
C1_AtMostTenMutatingCalls ==
    Len(cfn.tokens) <= 10

\* C1 witness: an invocation that issued its tenth mutating call.
C1_Witness ==
    Len(cfn.tokens) = 10 /\ cfn.iterations = 10

\* How far the invocation is from its end: each iteration still allowed
\* counts 16, each position inside an iteration less than that.
C2_Rank ==
    CASE pc = "idle" -> 16 * 10 + 3
      [] pc = "accessStack" -> 16 * 10 + 2
      [] pc = "validateVersion" -> 16 * 10 + 1
      [] pc = "loop" -> 16 * maxLoops
      [] pc = "lookup" -> 16 * maxLoops + 15
      [] pc = "replacePlaceholders" -> 16 * maxLoops + 14
      [] pc = "switch" -> 16 * maxLoops + 13
      [] pc = "continueUpdateRollback" -> 16 * maxLoops + 12
      [] pc = "monitor" -> 16 * maxLoops + 11
      [] pc = "stabilize" -> 16 * maxLoops + 10
      [] pc = "finally" -> 16 * maxLoops + 9
      [] pc = "decide" -> 16 * maxLoops + 8
      [] OTHER -> -1

\* C2: provided every remote call and wait returns, every invocation ends
\* with exactly one of success, notInRollbackableState or a thrown error:
\* until it has ended a next step exists, every step brings the end nearer,
\* and the end carries a result of the matching kind. An invocation whose
\* tenth iteration ended in "loop again" throws the "Rollback did not finish"
\* error and returns no result, and that error is thrown in no other case.
C2_TerminatesWithTypedOutcome ==
    /\ [](Done =>
            /\ result.kind \in {"success", "notInRollbackableState", "error"}
            /\ (pc = "returned") = (result.kind \in {"success", "notInRollbackableState"})
            /\ (pc = "thrown") = (result.kind = "error"))
    /\ [](~Done => result.kind = "none" /\ ENABLED Next)
    /\ [](C2_Rank >= -1)
    /\ [][C2_Rank' < C2_Rank]_vars
    /\ [][(pc = "loop" /\ cfn.iterations = 10)
            => (pc' = "thrown" /\ result'.message = NoProgressMessage)]_vars
    /\ [](result.message = NoProgressMessage =>
            pc = "thrown" /\ cfn.iterations = 10 /\ monitor.state = "none")

\* C2 witness: the iteration bound was exhausted and the error thrown.
C2_Witness ==
    pc = "thrown" /\ result.message = NoProgressMessage /\ Len(cfn.tokens) = 10

\* C3: an iteration whose lookup maps to NONE or ROLLBACK_FAILED returns
\* notInRollbackableState at once: it issues no rollback or
\* continue-update-rollback request and starts no monitor; a stack found in
\* such a status by the first lookup gets no mutating call at all.
C3_NotRollbackableReturnsAtOnce ==
    /\ (LookedUp /\ LookedUpChoice \in {"NONE", "ROLLBACK_FAILED"}) =>
          /\ iter.rollbacks = 0 /\ iter.continues = 0
          /\ iter.monitorsStarted = 0 /\ monitor.state = "none"
          /\ \/ BeforeSwitch
             \/ pc = "returned" /\ result.kind = "notInRollbackableState"
          /\ cfn.iterations = 1 => Len(cfn.tokens) = 0
    /\ result.kind = "notInRollbackableState" =>
          LookedUp /\ LookedUpChoice \in {"NONE", "ROLLBACK_FAILED"}

\* C3 witness: the first lookup finds ROLLBACK_FAILED and the invocation returned.
C3_Witness ==
    /\ pc = "returned" /\ result.kind = "notInRollbackableState"
    /\ cfn.iterations = 1 /\ LookedUpChoice = "ROLLBACK_FAILED"

\* C4: an iteration whose lookup maps to START_ROLLBACK issues exactly one
\* rollback request and no continue-update-rollback request; the request
\* carries RetainExceptOnCreate = true and a client request token different
\* from the token of every other mutating call of the invocation.
C4_StartRollbackRequest ==
    (LookedUp /\ LookedUpChoice = "START_ROLLBACK") =>
        /\ iter.continues = 0
        /\ iter.rollbacks = (IF BeforeSwitch THEN 0 ELSE 1)
        /\ iter.rollbacks = 1 =>
              /\ cfn.lastRequest.kind = "rollbackStack"
              /\ cfn.lastRequest.RetainExceptOnCreate
              /\ cfn.tokens[Len(cfn.tokens)] = cfn.lastRequest.ClientRequestToken
              /\ \A i, j \in 1..Len(cfn.tokens) :
                    i # j => cfn.tokens[i] # cfn.tokens[j]

\* C4 witness: a rollback request issued after an earlier mutating call.
C4_Witness ==
    /\ LookedUp /\ LookedUpChoice = "START_ROLLBACK"
    /\ iter.rollbacks = 1 /\ Len(cfn.tokens) >= 2

\* The skip list the claim expects for a polled list of resource errors.
C5_ExpectedSkipList(resourceErrors) ==
    LET TopLevel(r) == r.isStackEvent = FALSE /\ r.parentStackLogicalIds = <<>>
        kept == SelectSeq(resourceErrors, TopLevel)
    IN  [i \in 1..Len(kept) |->
            IF kept[i].LogicalResourceId = NoLogicalId THEN ""
            ELSE kept[i].LogicalResourceId]

\* C5: an iteration whose lookup maps to CONTINUE_UPDATE_ROLLBACK issues
\* exactly one continueUpdateRollback request. With orphanFailedResources its
\* ResourcesToSkip are the logical ids (the empty string for an event without
\* one) of the resource errors of this iteration's poll, restricted to
\* {ROLLBACK_IN_PROGRESS, UPDATE_ROLLBACK_IN_PROGRESS}, that are not stack
\* events and have no nested-stack parent; otherwise they are the caller's
\* orphanLogicalIds.
C5_ContinueRollbackSkipList ==
    (LookedUp /\ LookedUpChoice = "CONTINUE_UPDATE_ROLLBACK") =>
        /\ iter.rollbacks = 0
        /\ iter.continues =
              (IF BeforeSwitch \/ pc = "continueUpdateRollback"
                  \/ (pc = "thrown" /\ result.message = PollErrorMessage)
               THEN 0 ELSE 1)
        /\ iter.continues = 1 =>
              /\ cfn.lastRequest.kind = "continueUpdateRollback"
              /\ ~options.orphanFailedResources =>
                    /\ cfn.lastRequest.ResourcesToSkip = options.orphanLogicalIds
                    /\ ~iter.poll.polled
              /\ (options.orphanFailedResources /\ iter.monitorsStarted = 0) =>
                    /\ iter.poll.polled
                    /\ iter.poll.stackStatuses =
                          {"ROLLBACK_IN_PROGRESS", "UPDATE_ROLLBACK_IN_PROGRESS"}
                    /\ cfn.lastRequest.ResourcesToSkip =
                          C5_ExpectedSkipList(iter.poll.resourceErrors)

\* C5 witness: in a later iteration, a poll with one top-level resource error
\* and one error that must not be skipped, and the request issued.
C5_Witness ==
    /\ LookedUp /\ LookedUpChoice = "CONTINUE_UPDATE_ROLLBACK"
    /\ options.orphanFailedResources /\ cfn.iterations >= 2
    /\ iter.continues = 1 /\ iter.monitorsStarted = 0
    /\ Len(iter.poll.resourceErrors) = 2
    /\ cfn.lastRequest.ResourcesToSkip = <<"A">>

\* C6: orphanFailedResources together with a non-empty orphanLogicalIds fails
\* with 'Cannot combine --force with --orphan' before any remote interaction:
\* no environment access, bootstrap check, lookup or mutating call.
C6_CombineRejectedFirst ==
    /\ (options.orphanFailedResources /\ options.orphanLogicalIds # <<>>) =>
          /\ pc = "thrown" /\ result.message = "Cannot combine --force with --orphan"
          /\ cfn.envAccesses = 0 /\ cfn.versionChecks = 0
          /\ cfn.lookups = 0 /\ Len(cfn.tokens) = 0 /\ cfn.iterations = 0
    /\ result.message = "Cannot combine --force with --orphan" =>
          options.orphanFailedResources /\ options.orphanLogicalIds # <<>>

\* C6 witness: the invocation with both options was rejected.
C6_Witness ==
    /\ pc = "thrown" /\ result.message = "Cannot combine --force with --orphan"
    /\ options.orphanFailedResources /\ Len(options.orphanLogicalIds) = 1

\* C7: after a mutating action rollbackStack returns success exactly when the
\* final status is a rollback-success status or no error text was aggregated;
\* no error text means the wait handed back a stack and the monitor reported
\* no errors. Success is returned in no other place.
C7_SuccessExactlyWhen ==
    /\ Decided =>
          ((pc = "returned" /\ result.kind = "success")
             = (finalStackState.isRollbackSuccess \/ stackErrorMessage = ""))
    /\ monitor.state = "stopped" =>
          ((stackErrorMessage = "") = (iter.wait = "returned" /\ monitor.errors = <<>>))
    /\ result.kind = "success" => Decided /\ iter.rollbacks + iter.continues = 1

\* C7 witness: success returned on a rollback-success status although errors
\* were aggregated.
C7_Witness ==
    /\ pc = "returned" /\ result.kind = "success"
    /\ finalStackState.isRollbackSuccess /\ stackErrorMessage # ""

\* C8: when a mutating action ends in failure, another iteration starts if
\* and only if orphanFailedResources was requested and the final stack state
\* maps to CONTINUE_UPDATE_ROLLBACK, whichever request the iteration issued;
\* every other failure throws the aggregated error text followed by the
\* --orphan/--force recourse.
C8_LoopAgainExactlyWhen ==
    /\ (Decided /\ ActionFailed) =>
          IF options.orphanFailedResources
             /\ finalStackState.rollbackChoice = "CONTINUE_UPDATE_ROLLBACK"
          THEN pc = "loop"
          ELSE /\ pc = "thrown"
               /\ result.message = stackErrorMessage \o
                    " (fix problem and retry, or orphan these resources using --orphan or --force)"
    /\ (Decided /\ pc = "loop") => ActionFailed

\* C8 witness: a failed start-rollback iteration that loops again.
C8_Witness ==
    Decided /\ ActionFailed /\ pc = "loop" /\ iter.rollbacks = 1

\* The action the switch statement takes for a rollback choice.
C9_ActionFor(choice) ==
    CASE choice = "START_ROLLBACK" -> "startRollback"
      [] choice = "CONTINUE_UPDATE_ROLLBACK" -> "continueRollback"
      [] OTHER -> "notRollbackable"

\* C9: every iteration looks the stack up exactly once before it chooses its
\* action, and the action is the one the status of that lookup asks for.
C9_FreshLookupDecides ==
    /\ iter.lookups <= 1
    /\ cfn.lookups = cfn.iterations - (IF pc = "lookup" THEN 1 ELSE 0)
    /\ iter.action # "none" =>
          /\ LookedUp
          /\ iter.action = C9_ActionFor(LookedUpChoice)

\* C9 witness: a later iteration finds a status unlike the one the previous
\* iteration ended with, and acts on it.
C9_Witness ==
    cfn.iterations >= 2 /\ iter.action = "startRollback"

\* C10: a monitor is started only after a mutating call of the same
\* iteration, at most one monitor is active, and every started monitor is
\* stopped before rollbackStack returns, throws or begins the next
\* iteration, also when the wait throws.
C10_MonitorScoped ==
    /\ cfn.activeMonitors \in {0, 1}
    /\ iter.monitorsStarted <= iter.rollbacks + iter.continues
    /\ iter.monitorsStarted <= 1
    /\ (cfn.activeMonitors = 1) = (monitor.state = "started")
    /\ monitor.state = "started" => pc \in {"stabilize", "finally"}
    /\ (Done \/ pc \in {"loop", "lookup"}) => cfn.activeMonitors = 0

\* C10 witness: the wait threw, the monitor was stopped, rollbackStack threw.
C10_Witness ==
    /\ pc = "thrown" /\ iter.wait = "threw"
    /\ monitor.state = "stopped" /\ cfn.activeMonitors = 0

\* C11: deployStack, and rollbackStack unless validateBootstrapStackVersion is
\* false, validate the bootstrap version (the version the artifact requires
\* for deploy, 23 for rollback) before any mutating call; a failed validation
\* throws '<stackName>: ' followed by the validation message, and no
\* submission, rollback or continue-rollback request has been issued.
C11_BootstrapCheckedFirst ==
    /\ deploy.submissions > 0 =>
          /\ deploy.versionChecks = 1 /\ ~deploy.versionFailed
          /\ deploy.requiredVersion = deploy.options.requiresBootstrapStackVersion
    /\ deploy.versionFailed =>
          /\ deploy.pc = "thrown" /\ deploy.submissions = 0
          /\ deploy.result = [kind |-> "error",
                              message |-> deployName \o ": " \o VersionErrorMessage]
    /\ (options.validateBootstrapStackVersion /\ (cfn.lookups > 0 \/ cfn.tokens # <<>>)) =>
          /\ cfn.versionChecks = 1 /\ ~cfn.versionFailed
          /\ cfn.requiredVersion = 23
    /\ cfn.versionFailed =>
          /\ pc = "thrown" /\ cfn.tokens = <<>> /\ cfn.lookups = 0
          /\ result = [kind |-> "error",
                       message |-> deployName \o ": " \o VersionErrorMessage]
    /\ ~options.validateBootstrapStackVersion => cfn.versionChecks = 0

\* C11 witness: a deploy of a stack that requires version 6 failed its check.
C11_Witness ==
    /\ deploy.versionFailed /\ deploy.pc = "thrown"
    /\ deploy.options.requiresBootstrapStackVersion = 6

\* C12: when the rollback or continue-update-rollback request is rejected,
\* or the lookup fails or finds no stack, the error leaves rollbackStack at
\* once: the call is not repeated, no monitor is started for it, and the
\* invocation takes no further step.
C12_RemoteFailurePropagates ==
    /\ cfn.lastRequest.rejected =>
          /\ pc = "thrown" /\ result.message = RemoteErrorMessage
          /\ iter.rollbacks + iter.continues = 1
          /\ iter.monitorsStarted = 0 /\ monitor.state = "none"
          /\ Len(cfn.tokens) = cfn.iterations /\ cfn.lookups = cfn.iterations
    /\ (iter.lookups = 1 /\ ~iter.lookedUp.exists) =>
          /\ pc = "thrown"
          /\ result.message \in {LookupErrorMessage, NoStackIdMessage}
          /\ iter.rollbacks + iter.continues = 0
          /\ iter.monitorsStarted = 0 /\ monitor.state = "none"
          /\ Len(cfn.tokens) = cfn.iterations - 1 /\ cfn.lookups = cfn.iterations
    /\ pc = "thrown" => ~ENABLED Next

\* C12 witness: a later iteration's continue-update-rollback request is rejected.
C12_Witness ==
    /\ cfn.lastRequest.rejected /\ cfn.iterations >= 2
    /\ cfn.lastRequest.kind = "continueUpdateRollback"

\* C34: without orphanFailedResources an invocation of rollbackStack never
\* loops: it has one iteration at most, which looks the stack up exactly
\* once, and it issues at most one mutating call, whatever the outcome of
\* that call.
C34_NoLoopWithoutOrphan ==
    (pc # "idle" /\ ~options.orphanFailedResources) =>
       /\ cfn.iterations <= 1
       /\ Len(cfn.tokens) <= 1
       /\ cfn.lookups = (IF cfn.iterations = 1 /\ pc # "lookup" THEN 1 ELSE 0)

\* C34 witness: without orphanFailedResources, the continue-update-rollback
\* request of the one iteration failed, leaving the stack where another
\* continue is due, and the invocation threw after one lookup and one call.
C34_Witness ==
    /\ ~options.orphanFailedResources
    /\ pc = "thrown" /\ Decided /\ ActionFailed
    /\ finalStackState.rollbackChoice = "CONTINUE_UPDATE_ROLLBACK"
    /\ cfn.lookups = 1 /\ Len(cfn.tokens) = 1 /\ iter.continues = 1

\* C35: whenever rollbackStack returns notInRollbackableState, no mutating
\* call (rollback or continue-update-rollback request) was issued at any
\* point of the invocation.
C35_NotRollbackableMeansUntouched ==
    result.kind = "notInRollbackableState" => Len(cfn.tokens) = 0

\* C36: the decision taken after a mutating action (success, another
\* iteration, or throw) reads a stack status that was read after the
\* mutating call, never the one looked up before it, also when the wait
\* for stabilization throws.
C36_DecisionOnFreshStatus ==
    pc = "decide" => iter.wait = "returned"

\* ------------------------------------------------- asset calls and caches
\* Deployments.buildSingleAsset, publishSingleAsset, isSingleAssetPublished
\* (deployments.ts:611-675) and the two caches they share, publisherCache and
\* _allowCrossAccountAssetPublishing.  Every call is an async function: it runs
\* without interruption from one await to the next, and the calls interleave
\* at the awaits.

\* A cachedPublisher that constructs a publisher on every call.
cachedPublisherUncached(assetManifest, env, stackName) ==
    [publisher |-> publishers + 1,
     publisherCache |-> [publisherCache EXCEPT ![assetManifest] = publishers + 1],
     publishers |-> publishers + 1,
     assetPublishing |->
        [assetPublishing EXCEPT ![publishers + 1] =
            [env |-> env,
             prefix |-> IF stackName = <<>> \/ stackName = <<"">> THEN <<>>
                        ELSE <<"bold(", stackName[1], ")", ": ">>,
             hasFailures |-> FALSE]]]

\* A publisher that was constructed for another environment or with another
\* prefix is replaced.
cachedPublisherForStack(assetManifest, env, stackName) ==
    LET prefix == IF stackName = <<>> \/ stackName = <<"">> THEN <<>>
                  ELSE <<"bold(", stackName[1], ")", ": ">>
        existing == publisherCache[assetManifest]
    IN  IF existing # 0 /\ assetPublishing[existing].env = env
                        /\ assetPublishing[existing].prefix = prefix
        THEN [publisher |-> existing, publisherCache |-> publisherCache,
              publishers |-> publishers, assetPublishing |-> assetPublishing]
        ELSE cachedPublisherUncached(assetManifest, env, stackName)

\* deployments.ts:695-709.  No await: get, construct and set are one step.
\* The publisher constructed has the environment (PublishingAws) and the
\* prefix of its progress listener: chalk.bold(stackName) and ': ', or ''.
cachedPublisher(assetManifest, env, stackName) ==
    IF publisherCache[assetManifest] # 0
    THEN [publisher |-> publisherCache[assetManifest],
          publisherCache |-> publisherCache,
          publishers |-> publishers,
          assetPublishing |-> assetPublishing]
    ELSE [publisher |-> publishers + 1,
          publisherCache |-> [publisherCache EXCEPT ![assetManifest] = publishers + 1],
          publishers |-> publishers + 1,
          assetPublishing |->
             [assetPublishing EXCEPT ![publishers + 1] =
                 [env |-> env,
                  prefix |-> IF stackName = <<>> \/ stackName = <<"">> THEN <<>>
                             ELSE <<"bold(", stackName[1], ")", ": ">>,
                  hasFailures |-> FALSE]]]

\* deployments.ts:611-624.  With an asset manifest artifact the bootstrap
\* version is validated first; with 'no-version-validation' it is not.
buildSingleAsset(c, assetManifest, validate) ==
    /\ calls[c].pc = "idle"
    /\ calls' = [calls EXCEPT ![c] =
                   [NoCall EXCEPT !.operation = "buildSingleAsset",
                                  !.assetManifest = assetManifest,
                                  !.pc = IF validate THEN "accessStack"
                                                     ELSE "resolveStackEnvironment"]]
    /\ UNCHANGED <<publisherCache, publishers, assetPublishing,
                   allowCrossAccountAssetPublishing, determineCalls>>

\* deployments.ts:618  await this.envs.accessStackForReadOnlyStackOperations
buildAccessStack(c) ==
    /\ calls[c].pc = "accessStack"
    /\ \E ok \in BOOLEAN :
          calls' = [calls EXCEPT ![c].pc = IF ok THEN "validateVersion" ELSE "thrown"]
    /\ UNCHANGED <<publisherCache, publishers, assetPublishing,
                   allowCrossAccountAssetPublishing, determineCalls>>

\* deployments.ts:619-623  await this.validateBootstrapStackVersion
buildValidateVersion(c) ==
    /\ calls[c].pc = "validateVersion"
    /\ \E ok \in BOOLEAN :
          calls' = [calls EXCEPT ![c].pc = IF ok THEN "resolveStackEnvironment"
                                                 ELSE "thrown"]
    /\ UNCHANGED <<publisherCache, publishers, assetPublishing,
                   allowCrossAccountAssetPublishing, determineCalls>>

\* deployments.ts:638-643
publishSingleAsset(c, assetManifest) ==
    /\ calls[c].pc = "idle"
    /\ calls' = [calls EXCEPT ![c] =
                   [NoCall EXCEPT !.operation = "publishSingleAsset",
                                  !.assetManifest = assetManifest,
                                  !.pc = "resolveStackEnvironment"]]
    /\ UNCHANGED <<publisherCache, publishers, assetPublishing,
                   allowCrossAccountAssetPublishing, determineCalls>>

\* deployments.ts:667-672
isSingleAssetPublished(c, assetManifest) ==
    /\ calls[c].pc = "idle"
    /\ calls' = [calls EXCEPT ![c] =
                   [NoCall EXCEPT !.operation = "isSingleAssetPublished",
                                  !.assetManifest = assetManifest,
                                  !.pc = "resolveStackEnvironment"]]
    /\ UNCHANGED <<publisherCache, publishers, assetPublishing,
                   allowCrossAccountAssetPublishing, determineCalls>>

\* The call resumes from await this.envs.resolveStackEnvironment: it takes its
\* publisher from cachedPublisher and runs on to its next await.  For
\* publishSingleAsset that is inside allowCrossAccountAssetPublishingForEnv
\* (deployments.ts:656-662): the memoized value if there is one, else the
\* await of accessStackForReadOnlyStackOperations, the field still undefined.
\* The call is made for a stack without a name in one environment, or for
\* StackA in another.
resolveStackEnvironment(c) ==
    /\ calls[c].pc = "resolveStackEnvironment"
    /\ \E resolved \in BOOLEAN,
          stack \in {[env |-> "aws://111111111111/us-east-1", stackName |-> Undefined],
                     [env |-> "aws://222222222222/eu-west-1",
                      stackName |-> Some("StackA")]} :
          IF ~resolved
          THEN /\ calls' = [calls EXCEPT ![c].pc = "thrown"]
               /\ UNCHANGED <<publisherCache, publishers, assetPublishing>>
          ELSE LET env == stack.env
                   stackName == stack.stackName
                   got == cachedPublisher(calls[c].assetManifest, env, stackName)
                   memoized == allowCrossAccountAssetPublishing # "undefined"
               IN  /\ publisherCache' = got.publisherCache
                   /\ publishers' = got.publishers
                   /\ assetPublishing' = got.assetPublishing
                   /\ calls' = [calls EXCEPT
                        ![c].publisher = got.publisher,
                        ![c].differs =
                            \/ got.assetPublishing[got.publisher].env # env
                            \/ got.assetPublishing[got.publisher].prefix
                                  # cachedPublisherUncached(calls[c].assetManifest, env,
                                                            stackName)
                                       .assetPublishing[publishers + 1].prefix,
                        ![c].allowCrossAccount =
                            IF calls[c].operation = "publishSingleAsset" /\ memoized
                            THEN allowCrossAccountAssetPublishing ELSE @,
                        ![c].pc =
                            CASE calls[c].operation = "buildSingleAsset" -> "buildEntry"
                              [] calls[c].operation = "isSingleAssetPublished" ->
                                    "isEntryPublished"
                              [] OTHER -> IF memoized THEN "publishEntry"
                                                      ELSE "allowAccessStack"]
    /\ UNCHANGED <<allowCrossAccountAssetPublishing, determineCalls>>

\* deployments.ts:658-659.  The environment is there: the call invokes
\* determineAllowCrossAccountAssetPublishing and awaits its answer.
allowAccessStack(c) ==
    /\ calls[c].pc = "allowAccessStack"
    /\ \E ok \in BOOLEAN :
          IF ok
          THEN /\ calls' = [calls EXCEPT ![c].pc = "determine", ![c].determined = TRUE]
               /\ determineCalls' = determineCalls + 1
          ELSE /\ calls' = [calls EXCEPT ![c].pc = "thrown"]
               /\ UNCHANGED determineCalls
    /\ UNCHANGED <<publisherCache, publishers, assetPublishing,
                   allowCrossAccountAssetPublishing>>

\* deployments.ts:659-661.  The answer arrives: it is stored in the field and
\* returned to publishSingleAsset, which passes it to publishEntry.
determineAllowCrossAccountAssetPublishing(c) ==
    /\ calls[c].pc = "determine"
    /\ \E allow \in {"true", "false"} :
          /\ allowCrossAccountAssetPublishing' = allow
          /\ calls' = [calls EXCEPT ![c].pc = "publishEntry",
                                    ![c].allowCrossAccount = allow]
    /\ UNCHANGED <<publisherCache, publishers, assetPublishing, determineCalls>>

\* The publisher reports the failure of this entry only.
hasFailuresOfThisEntry(failures, failed) == failed

\* AssetPublishing.hasFailures after buildEntry or publishEntry has handled
\* an entry: the publisher keeps the failures of all the entries it has
\* handled (failures says there were some before, failed that this one
\* failed).
hasFailures(failures, failed) == failures \/ failed

\* deployments.ts:629-632  await publisher.buildEntry(asset); hasFailures
buildEntry(c) ==
    /\ calls[c].pc = "buildEntry"
    /\ \E failed \in BOOLEAN :
          LET publisher == calls[c].publisher
              failures == hasFailures(assetPublishing[publisher].hasFailures, failed)
          IN  /\ assetPublishing' =
                    [assetPublishing EXCEPT ![publisher].hasFailures = failures]
              /\ calls' = [calls EXCEPT
                    ![c].differs = FALSE, ![c].failed = failed,
                    ![c].pc = IF failures THEN "thrown" ELSE "returned",
                    ![c].error = IF failures THEN "Failed to build asset" ELSE ""]
    /\ UNCHANGED <<publisherCache, publishers, allowCrossAccountAssetPublishing,
                   determineCalls>>

\* deployments.ts:647-653  await publisher.publishEntry(asset, ...); hasFailures
publishEntry(c) ==
    /\ calls[c].pc = "publishEntry"
    /\ \E failed \in BOOLEAN :
          LET publisher == calls[c].publisher
              failures == hasFailures(assetPublishing[publisher].hasFailures, failed)
          IN  /\ assetPublishing' =
                    [assetPublishing EXCEPT ![publisher].hasFailures = failures]
              /\ calls' = [calls EXCEPT
                    ![c].differs = FALSE, ![c].failed = failed,
                    ![c].pc = IF failures THEN "thrown" ELSE "returned",
                    ![c].error = IF failures THEN "Failed to publish asset" ELSE ""]
    /\ UNCHANGED <<publisherCache, publishers, allowCrossAccountAssetPublishing,
                   determineCalls>>

\* deployments.ts:674  return publisher.isEntryPublished(asset)
isEntryPublished(c) ==
    /\ calls[c].pc = "isEntryPublished"
    /\ \E ok \in BOOLEAN :
          calls' = [calls EXCEPT ![c].pc = IF ok THEN "returned" ELSE "thrown",
                                 ![c].differs = FALSE]
    /\ UNCHANGED <<publisherCache, publishers, assetPublishing,
                   allowCrossAccountAssetPublishing, determineCalls>>

PublishNext ==
    \/ (\E c \in Calls, m \in Manifests, validate \in BOOLEAN :
           buildSingleAsset(c, m, validate)) /\ UNCHANGED notPublishVars
    \/ (\E c \in Calls : buildAccessStack(c)) /\ UNCHANGED notPublishVars
    \/ (\E c \in Calls : buildValidateVersion(c)) /\ UNCHANGED notPublishVars
    \/ (\E c \in Calls, m \in Manifests : publishSingleAsset(c, m))
           /\ UNCHANGED notPublishVars
    \/ (\E c \in Calls, m \in Manifests : isSingleAssetPublished(c, m))
           /\ UNCHANGED notPublishVars
    \/ (\E c \in Calls : resolveStackEnvironment(c)) /\ UNCHANGED notPublishVars
    \/ (\E c \in Calls : allowAccessStack(c)) /\ UNCHANGED notPublishVars
    \/ (\E c \in Calls : determineAllowCrossAccountAssetPublishing(c))
           /\ UNCHANGED notPublishVars
    \/ (\E c \in Calls : buildEntry(c)) /\ UNCHANGED notPublishVars
    \/ (\E c \in Calls : publishEntry(c)) /\ UNCHANGED notPublishVars
    \/ (\E c \in Calls : isEntryPublished(c)) /\ UNCHANGED notPublishVars

PublishSpec == Init /\ [][PublishNext]_vars

\* The calls that have taken their publisher from cachedPublisher.
Served == {c \in Calls : calls[c].publisher # 0}

\* C13: in every interleaving of buildSingleAsset, publishSingleAsset and
\* isSingleAssetPublished calls on one instance, calls with the same manifest
\* object get one and the same publisher, which is constructed exactly once
\* and never replaced or evicted; calls with different manifest objects get
\* different publishers.
C13_OnePublisherPerManifest ==
    /\ [](\A c, d \in Served :
             (calls[c].assetManifest = calls[d].assetManifest)
                <=> (calls[c].publisher = calls[d].publisher))
    /\ [](\A c \in Served : publisherCache[calls[c].assetManifest] = calls[c].publisher)
    /\ [](publishers = Cardinality({m \in Manifests : publisherCache[m] # 0}))
    /\ [][\A m \in Manifests :
             publisherCache[m] # 0 => publisherCache'[m] = publisherCache[m]]_vars

\* C13 witness: a build and a publish of the same manifest, interleaved,
\* have both taken their publisher.
C13_Witness ==
    /\ calls[1].operation = "buildSingleAsset" /\ calls[1].pc = "buildEntry"
    /\ calls[2].operation = "publishSingleAsset" /\ calls[2].publisher # 0
    /\ calls[1].assetManifest = calls[2].assetManifest

\* C14: in every interleaving of concurrent publishSingleAsset calls,
\* determineAllowCrossAccountAssetPublishing is invoked at most once in the
\* lifetime of the instance, and every call observes the same memoized value.
C14_DeterminedAtMostOnce ==
    /\ determineCalls <= 1
    /\ \A c, d \in Calls :
          (calls[c].allowCrossAccount # "undefined"
              /\ calls[d].allowCrossAccount # "undefined")
             => calls[c].allowCrossAccount = calls[d].allowCrossAccount

\* The publisher the cache has for the manifest of call c.
SharedPublisher(c) == assetPublishing[publisherCache[calls[c].assetManifest]]

\* This step is the return of publisher.buildEntry or publisher.publishEntry
\* to call c.
EntryHandled(c) ==
    /\ calls[c].pc \in {"buildEntry", "publishEntry"}
    /\ calls'[c].pc \in {"returned", "thrown"}

\* C33: buildSingleAsset (publishSingleAsset) throws 'Failed to build
\* (publish) asset' exactly when the cached publisher of the manifest
\* reports failures after the entry has been handled; a failure recorded by
\* an earlier call on the manifest fails every later build or publish call
\* on that manifest.
C33_SharedFailures ==
    /\ [][\A c \in Calls :
             EntryHandled(c) =>
                LET message == IF calls[c].operation = "buildSingleAsset"
                               THEN "Failed to build asset"
                               ELSE "Failed to publish asset"
                    reported ==
                       assetPublishing'[publisherCache'[calls[c].assetManifest]].hasFailures
                IN  /\ (calls'[c].pc = "thrown" /\ calls'[c].error = message) <=> reported
                    /\ calls'[c].pc = "returned" <=> ~reported
                    /\ SharedPublisher(c).hasFailures => reported]_vars
    /\ [](\A c \in Calls : calls[c].error # "" => SharedPublisher(c).hasFailures)

\* C33 witness: the build of an entry has failed, and a later publish call
\* on the same manifest, whose own entry did not fail, has thrown.
C33_Witness ==
    /\ calls[1].operation = "buildSingleAsset" /\ calls[1].failed
    /\ calls[1].error = "Failed to build asset"
    /\ calls[2].operation = "publishSingleAsset" /\ ~calls[2].failed
    /\ calls[2].assetManifest = calls[1].assetManifest
    /\ calls[2].pc = "thrown" /\ calls[2].error = "Failed to publish asset"

\* C37: once a publisher exists for a manifest, a later build, publish or
\* existence-check call for that manifest with another resolved environment
\* or stack name neither replaces the cached publisher nor creates a second
\* one: the cache entry is unchanged and the publisher keeps the environment
\* and the prefix of the first call.
C37_FirstCallDecides ==
    /\ [][\A c \in Calls :
             (~calls[c].differs /\ calls'[c].differs) =>
                /\ publisherCache[calls[c].assetManifest] # 0
                /\ calls'[c].publisher = publisherCache[calls[c].assetManifest]
                /\ publisherCache' = publisherCache
                /\ publishers' = publishers
                /\ assetPublishing' = assetPublishing]_vars
    /\ [][\A m \in Manifests :
             publisherCache[m] # 0 =>
                /\ publisherCache'[m] = publisherCache[m]
                /\ assetPublishing'[publisherCache[m]].env
                      = assetPublishing[publisherCache[m]].env
                /\ assetPublishing'[publisherCache[m]].prefix
                      = assetPublishing[publisherCache[m]].prefix]_vars

\* C37 witness: the first call constructed the publisher for a stack without
\* a name; a later existence check on the manifest, made for StackA in
\* another environment, works with that publisher, which has the environment
\* of the first call and no prefix.
C37_Witness ==
    /\ calls[1].operation = "buildSingleAsset" /\ calls[1].pc = "returned"
    /\ calls[2].operation = "isSingleAssetPublished" /\ calls[2].differs
    /\ calls[2].assetManifest = calls[1].assetManifest
    /\ calls[2].publisher = calls[1].publisher /\ publishers = 1
    /\ assetPublishing[calls[2].publisher].env = "aws://111111111111/us-east-1"
    /\ assetPublishing[calls[2].publisher].prefix = <<>>

\* ---------------------------------------------- metadata assets (assets.ts)
\* addMetadataAssetsToManifest and the functions it calls.  The list
\* stack.assets is arbitrary: the model chooses each asset when the loop
\* reaches it, and keeps of the manifest the entry added last and the number
\* of entries of each kind.

\* path.extname, for a path that does not end in a separator: from the last
\* dot of the base name on; '' if there is none, if it begins the base name,
\* or if the base name is '..'.
extname(path) ==
    LET LastIndexOf(string, char) ==
           LET at == {i \in 1 .. Len(string) : string[i] = char}
           IN  IF at = {} THEN 0 ELSE CHOOSE i \in at : \A j \in at : j <= i
        base == SubSeq(path, LastIndexOf(path, "/") + 1, Len(path))
        startDot == LastIndexOf(base, ".")
    IN  IF startDot <= 1 \/ base = <<".", ".">>
        THEN <<>>
        ELSE SubSeq(base, startDot, Len(base))

\* String.prototype.toLowerCase on one character of the asset ids.
toLowerCase(char) ==
    CASE char = "M" -> "m"
      [] char = "A" -> "a"
      [] OTHER -> char

\* asset.id.replace(/[:/]/g, '-').toLowerCase()
SanitizedId(id) ==
    [i \in 1 .. Len(id) |-> IF id[i] \in {":", "/"} THEN "-" ELSE toLowerCase(id[i])]

\* !x of an optional string: undefined and '' are falsy.
Falsy(optional) == optional = Undefined \/ optional = Some(<<>>)

\* An object key that always has the id as a directory.
FileAssetKeyNested(asset, packaging) ==
    <<"assets/">> \o asset.id \o <<"/">> \o asset.sourceHash
        \o (IF packaging = "zip" THEN <<".zip">> ELSE extname(asset.path))

\* assets.ts:92-96  extension, baseName, s3Prefix, key
FileAssetKey(asset, packaging) ==
    LET extension == IF packaging = "zip" THEN <<".zip">> ELSE extname(asset.path)
        baseName == asset.sourceHash \o extension
        s3Prefix == IF asset.id = asset.sourceHash
                    THEN <<"assets/">>
                    ELSE <<"assets/">> \o asset.id \o <<"/">>
    IN  s3Prefix \o baseName

\* A configuration check that only looks at the image-name parameter.
InvalidDockerConfigurationLax(asset) == Falsy(asset.imageNameParameter)

\* assets.ts:124
InvalidDockerConfiguration(asset) ==
    Falsy(asset.imageNameParameter)
        /\ (Falsy(asset.repositoryName) \/ Falsy(asset.imageTag))

\* assets.ts:128  asset.repositoryName ?? 'cdk/' + sanitized id
DockerRepositoryName(asset) ==
    IF asset.repositoryName # Undefined
    THEN asset.repositoryName[1]
    ELSE <<"cdk/">> \o SanitizedId(asset.id)

PrepThrow(message) ==
    [prep EXCEPT !.pc = "thrown", !.result = [kind |-> "error", message |-> message]]

\* assets.ts:16-37.  No assets: {} at once; else the toolkit is looked up.
addMetadataAssetsToManifest(assetCount, hasAssembly) ==
    /\ prep.pc = "idle"
    /\ prep' = IF assetCount = 0
               THEN [prep EXCEPT !.pc = "returned", !.hasAssembly = hasAssembly,
                                 !.result = [kind |-> "params", message |-> ""]]
               ELSE [prep EXCEPT !.pc = "lookupToolkit", !.hasAssembly = hasAssembly,
                                 !.remaining = assetCount]

\* assets.ts:31-35  await envResources.lookupToolkit(); found?
lookupToolkit ==
    /\ prep.pc = "lookupToolkit"
    /\ \E outcome \in {"found", "notFound", "error"} :
          prep' = CASE outcome = "found" -> [prep EXCEPT !.pc = "forAsset"]
                    [] outcome = "notFound" -> PrepThrow(AssetErrorMessages.toolkitNotFound)
                    [] OTHER -> PrepThrow(EnvErrorMessage)

\* assets.ts:39-54.  The loop takes the next asset: a reused id is skipped,
\* a stack without assembly is an error, else prepareAsset is awaited.
forAsset ==
    /\ prep.pc = "forAsset"
    /\ IF prep.remaining = 0
       THEN prep' = [prep EXCEPT !.pc = "returned",
                                 !.result = [kind |-> "params", message |-> ""]]
       ELSE \E asset \in AssetMetadataEntries, reuseAsset \in BOOLEAN :
               prep' = IF reuseAsset
                       THEN [prep EXCEPT !.remaining = @ - 1, !.asset = asset,
                                         !.entry = NoEntry, !.requested = Undefined]
                       ELSE IF ~prep.hasAssembly
                       THEN [PrepThrow(AssetErrorMessages.noAssembly) EXCEPT
                                !.asset = asset, !.entry = NoEntry,
                                !.requested = Undefined]
                       ELSE [prep EXCEPT !.pc = "prepareAsset", !.remaining = @ - 1,
                                         !.asset = asset, !.entry = NoEntry,
                                         !.requested = Undefined]

\* assets.ts:68-76, 85-114  case 'zip', 'file': prepareFileAsset
prepareFileAsset ==
    /\ prep.pc = "prepareAsset"
    /\ prep.asset.packaging \in {"zip", "file"}
    /\ prep' = [prep EXCEPT
                  !.pc = "forAsset",
                  !.fileAssets = @ + 1,
                  !.entry = [NoEntry EXCEPT
                               !.kind = "file",
                               !.sourceHash = prep.asset.sourceHash,
                               !.path = prep.asset.path,
                               !.packaging = prep.asset.packaging,
                               !.objectKey = FileAssetKey(prep.asset,
                                                          prep.asset.packaging)]]

\* assets.ts:77-78, 116-131  case 'container-image': prepareDockerImageAsset
\* up to its await of envResources.prepareEcrRepository(repositoryName).
prepareDockerImageAsset ==
    /\ prep.pc = "prepareAsset"
    /\ prep.asset.packaging = "container-image"
    /\ prep' = IF InvalidDockerConfiguration(prep.asset)
               THEN PrepThrow(AssetErrorMessages.invalidDocker)
               ELSE [prep EXCEPT
                       !.pc = "prepareEcrRepository",
                       !.repositories = @ + 1,
                       !.requested = Some(DockerRepositoryName(prep.asset))]

\* assets.ts:79-82  default: unsupported packaging type
unsupportedPackaging ==
    /\ prep.pc = "prepareAsset"
    /\ prep.asset.packaging \notin {"zip", "file", "container-image"}
    /\ prep' = PrepThrow(AssetErrorMessages.unsupportedPackaging)

\* assets.ts:131-151.  The repository is there (or the call failed): the
\* image entry is added with the tag, asset.imageTag ?? asset.sourceHash.
prepareEcrRepository ==
    /\ prep.pc = "prepareEcrRepository"
    /\ \E ok \in BOOLEAN :
          prep' = IF ~ok
                  THEN PrepThrow(AssetErrorMessages.prepareEcrRepository)
                  ELSE [prep EXCEPT
                          !.pc = "forAsset",
                          !.dockerImages = @ + 1,
                          !.entry = [NoEntry EXCEPT
                                       !.kind = "docker-image",
                                       !.sourceHash = prep.asset.sourceHash,
                                       !.path = prep.asset.path,
                                       !.repositoryName = prep.requested[1],
                                       !.imageTag =
                                           IF prep.asset.imageTag # Undefined
                                           THEN prep.asset.imageTag[1]
                                           ELSE prep.asset.sourceHash]]

PrepNext ==
    \/ (\E assetCount \in 0 .. MaxAssets, hasAssembly \in BOOLEAN :
           addMetadataAssetsToManifest(assetCount, hasAssembly))
           /\ UNCHANGED notPrepVars
    \/ lookupToolkit /\ UNCHANGED notPrepVars
    \/ forAsset /\ UNCHANGED notPrepVars
    \/ prepareFileAsset /\ UNCHANGED notPrepVars
    \/ prepareDockerImageAsset /\ UNCHANGED notPrepVars
    \/ unsupportedPackaging /\ UNCHANGED notPrepVars
    \/ prepareEcrRepository /\ UNCHANGED notPrepVars

PrepSpec == Init /\ [][PrepNext]_vars

\* C15: the manifest entry of a file asset is keyed by sourceHash; its
\* object key is 'assets/' + sourceHash + ext when id = sourceHash and
\* 'assets/' + id + '/' + sourceHash + ext otherwise; ext is '.zip' for zip
\* packaging and the extension of the asset's path for file packaging.
C15_FileAssetKey ==
    prep.entry.kind = "file" =>
       LET asset == prep.asset
           ext == IF asset.packaging = "zip" THEN <<".zip">> ELSE extname(asset.path)
       IN  /\ asset.packaging \in {"zip", "file"}
           /\ prep.entry.sourceHash = asset.sourceHash
           /\ asset.id = asset.sourceHash =>
                 prep.entry.objectKey = <<"assets/">> \o asset.sourceHash \o ext
           /\ asset.id # asset.sourceHash =>
                 prep.entry.objectKey =
                    <<"assets/">> \o asset.id \o <<"/">> \o asset.sourceHash \o ext
           /\ (asset.packaging = "file" /\ asset.path = <<"a", ".", "t", "x", "t">>) =>
                 ext = <<".", "t", "x", "t">>
           /\ (asset.packaging = "file"
                 /\ asset.path = <<"l", ".", "t", "a", "r", ".", "g", "z">>) =>
                 ext = <<".", "g", "z">>
           /\ (asset.packaging = "file"
                 /\ asset.path \in {<<"d", "i", "r">>, <<".", "e", "n", "v">>,
                                    <<"v", ".", "2", "/", "b", "i", "n">>}) =>
                 ext = <<>>

\* C15 witness: a file-packaged asset whose id is its source hash got the
\* key assets/h1.txt.
C15_Witness ==
    /\ prep.entry.kind = "file" /\ prep.asset.packaging = "file"
    /\ prep.asset.id = prep.asset.sourceHash
    /\ prep.entry.objectKey = <<"assets/", "h", "1", ".", "t", "x", "t">>

\* The current asset is a container image that prepareDockerImageAsset has
\* dealt with.
DockerPrepared ==
    /\ prep.asset.packaging = "container-image"
    /\ \/ prep.pc \in {"prepareEcrRepository", "forAsset", "returned"}
          /\ (prep.requested # Undefined)
       \/ prep.pc = "thrown"
          /\ prep.result.message \in {AssetErrorMessages.invalidDocker, AssetErrorMessages.prepareEcrRepository}

C17_ValidationBeforeRepositories ==
    (prep.pc = "thrown"
        /\ prep.result.message \in {AssetErrorMessages.unsupportedPackaging, AssetErrorMessages.invalidDocker})
       => prep.repositories = 0

\* ------------------------------------------ ResourceImporter: the import diff
\* ResourceImporter.discoverImportableResources (the importer source,
\* lines 227-261).

\* lines 434-436  describeResource: the construct path in the metadata of
\* the desired template, else the logical id.  The bucket has a construct
\* path, the other resources have none.
describeResource(logicalId) ==
    LET CdkPath == [id \in {"Bucket"} |-> "MyStack/Bucket/Resource"]
    IN  IF logicalId \in DOMAIN CdkPath THEN CdkPath[logicalId] ELSE logicalId

\* The changes, CDKMetadata not ignored.
resourceChangesUnfiltered(changes) == changes

\* lines 233-234  ignore changes to CDKMetadata
resourceChanges(changes) ==
    SelectSeq(changes, LAMBDA change : change.logicalId # "CDKMetadata")

\* lines 238-239
nonAdditions(changes) ==
    SelectSeq(resourceChanges(changes), LAMBDA change : change.kind # "add")

additions(changes) ==
    SelectSeq(resourceChanges(changes), LAMBDA change : change.kind = "add")

\* The DeletionPolicy of the resource, as it is.
addDefaultDeletionPolicyNever(DeletionPolicy) == DeletionPolicy

\* lines 494-503  addDefaultDeletionPolicy, on the DeletionPolicy of a resource
addDefaultDeletionPolicy(DeletionPolicy) ==
    IF DeletionPolicy # "" THEN DeletionPolicy ELSE "Retain"

\* lines 227-228
discoverImportableResources(allowNonAdditions, changes) ==
    /\ discovery.pc = "idle"
    /\ discovery' = [discovery EXCEPT !.pc = "currentTemplate",
                                      !.allowNonAdditions = allowNonAdditions,
                                      !.changes = changes]

\* lines 228-260.  The deployed template is there (or reading it failed): the
\* diff is split, non-additions are refused or warned about, and the
\* additions are returned.
currentTemplate ==
    /\ discovery.pc = "currentTemplate"
    /\ \E ok \in BOOLEAN :
          LET offendingResources ==
                 [i \in 1 .. Len(nonAdditions(discovery.changes)) |->
                     describeResource(nonAdditions(discovery.changes)[i].logicalId)]
              found == additions(discovery.changes)
          IN  discovery' =
                 IF ~ok
                 THEN [discovery EXCEPT
                         !.pc = "thrown",
                         !.result = [kind |-> "error",
                                     message |-> ImportErrorMessages.readCurrentTemplate,
                                     offendingResources |-> <<>>]]
                 ELSE IF offendingResources # <<>> /\ ~discovery.allowNonAdditions
                 THEN [discovery EXCEPT
                         !.pc = "thrown",
                         !.result = [kind |-> "error", message |-> ImportErrorMessages.noUpdates,
                                     offendingResources |-> offendingResources]]
                 ELSE [discovery EXCEPT
                         !.pc = "returned",
                         !.warnings = IF offendingResources # <<>>
                                      THEN Append(@, offendingResources) ELSE @,
                         !.additions =
                             [i \in 1 .. Len(found) |->
                                 [logicalId |-> found[i].logicalId,
                                  DeletionPolicy |->
                                     addDefaultDeletionPolicy(found[i].DeletionPolicy)]],
                         !.hasNonAdditions = offendingResources # <<>>,
                         !.result = [kind |-> "result", message |-> "",
                                     offendingResources |-> <<>>]]

DiscoveryNext ==
    \/ (discovery.pc = "idle"
           /\ \E allowNonAdditions \in BOOLEAN, changes \in ResourceChangeLists :
                 discoverImportableResources(allowNonAdditions, changes))
           /\ UNCHANGED notDiscoveryVars
    \/ currentTemplate /\ UNCHANGED notDiscoveryVars

DiscoverySpec == Init /\ [][DiscoveryNext]_vars

\* The positions of the changes the claim is about: all but CDKMetadata.
ConsideredChanges ==
    {i \in 1 .. Len(discovery.changes) : discovery.changes[i].logicalId # "CDKMetadata"}

\* C18: over the resource changes other than CDKMetadata,
\* discoverImportableResources returns as additions exactly the changes that
\* are additions, with hasNonAdditions true exactly when some change is not
\* an addition; if there is a non-addition it throws when allowNonAdditions
\* is false, and when allowNonAdditions is true it emits one warning listing
\* the offending resources and still returns the additions.
C18_DiscoverAdditions ==
    LET changes == discovery.changes
        added == {changes[i].logicalId : i \in {j \in ConsideredChanges :
                                                   changes[j].kind = "add"}}
        offending == {changes[i].logicalId : i \in {j \in ConsideredChanges :
                                                       changes[j].kind # "add"}}
        returnedIds == {discovery.additions[i].logicalId :
                           i \in 1 .. Len(discovery.additions)}
    IN  /\ discovery.pc = "returned" =>
              /\ returnedIds = added
              /\ Len(discovery.additions) = Cardinality(added)
              /\ \A i, j \in 1 .. Len(discovery.additions) :
                    i < j => \E k, l \in ConsideredChanges :
                                /\ k < l
                                /\ changes[k].logicalId = discovery.additions[i].logicalId
                                /\ changes[l].logicalId = discovery.additions[j].logicalId
              /\ discovery.hasNonAdditions <=> offending # {}
              /\ offending # {} => discovery.allowNonAdditions
              /\ Len(discovery.warnings) = IF offending # {} THEN 1 ELSE 0
              /\ offending # {} =>
                    {discovery.warnings[1][i] : i \in 1 .. Len(discovery.warnings[1])}
                       = {describeResource(id) : id \in offending}
        /\ (discovery.pc = "thrown"
               /\ discovery.result.message # ImportErrorMessages.readCurrentTemplate) =>
              /\ discovery.result.message = ImportErrorMessages.noUpdates
              /\ offending # {} /\ ~discovery.allowNonAdditions
              /\ discovery.warnings = <<>> /\ discovery.additions = <<>>
        /\ (discovery.pc \in {"returned", "thrown"}
               /\ offending # {} /\ ~discovery.allowNonAdditions) =>
              discovery.pc = "thrown"

\* C18 witness: an update of the queue is tolerated with a warning and the
\* added bucket is returned; the CDKMetadata change is ignored.
C18_Witness ==
    /\ discovery.pc = "returned" /\ discovery.allowNonAdditions
    /\ discovery.hasNonAdditions /\ discovery.warnings = << <<"Queue">> >>
    /\ Len(discovery.additions) = 1 /\ discovery.additions[1].logicalId = "Bucket"

\* ------------------------------- ResourceImporter: identifier resolution
\* ResourceImporter.askForResourceIdentifiers, resourceIdentifiers and
\* askForResourceIdentifier (the importer source, lines 124-139, 304-415).
\* The list of importable resources is arbitrary: the model chooses each
\* resource when the loop reaches it; its logical id is its position.

\* String.prototype.split(',')
RECURSIVE split(_)
split(string) ==
    LET at == {i \in 1 .. Len(string) : string[i] = ","}
        comma == IF at = {} THEN 0 ELSE CHOOSE i \in at : \A j \in at : i <= j
    IN  IF comma = 0
        THEN <<string>>
        ELSE <<SubSeq(string, 1, comma - 1)>>
                \o split(SubSeq(string, comma + 1, Len(string)))

\* obj, with nothing assigned.
PutNothing(obj, key, value) == obj

\* obj with obj[key] = value
Put(obj, key, value) ==
    [k \in DOMAIN obj \cup {key} |-> IF k = key THEN value ELSE obj[k]]

\* lines 304-313  resourceIdentifiers(): type -> property sets, from the
\* summaries that have both a ResourceType and ResourceIdentifiers
RECURSIVE resourceIdentifiersOf(_)
resourceIdentifiersOf(summaries) ==
    IF summaries = <<>>
    THEN EmptyObject
    ELSE LET summary == summaries[Len(summaries)]
             before == resourceIdentifiersOf(SubSeq(summaries, 1, Len(summaries) - 1))
         IN  IF summary.ResourceType # "" /\ summary.ResourceIdentifiers # Undefined
             THEN Put(before, summary.ResourceType,
                      [i \in 1 .. Len(summary.ResourceIdentifiers[1]) |->
                          split(summary.ResourceIdentifiers[1][i])])
             ELSE before

\* lines 340-341  retain only literal strings
literalStrings(Properties) ==
    [p \in {q \in DOMAIN Properties : Properties[q].type = "string"} |->
        Properties[p].value]

\* lines 344  property sets fully satisfied in the template
satisfied(idPropSets, resourceProps) ==
    SelectSeq(idPropSets,
              LAMBDA ps : \A i \in 1 .. Len(ps) :
                             ps[i] \in DOMAIN resourceProps /\ resourceProps[ps[i]] # "")

\* lines 346  candidateProps
candidateProps(propSet, resourceProps) ==
    [p \in {propSet[i] : i \in 1 .. Len(propSet)} |-> resourceProps[p]]

\* Going on to the prompts after every candidate was rejected.
skipAfterRejectionNever(satisfiedPropSets) == FALSE

\* lines 362  the user rejected every available identifier
skipAfterRejection(satisfiedPropSets) == Len(satisfiedPropSets) > 0

\* An input that counts as complete as soon as it has one value.
completeWithAnyValue(input, idProps) == DOMAIN input # {}

\* lines 408  the user gave inputs for all values
complete(input, idProps) == Cardinality(DOMAIN input) = Len(idProps)

\* lines 124-126
askForResourceIdentifiers(available, summaries) ==
    /\ asking.pc = "idle"
    /\ asking' = [asking EXCEPT !.pc = "resourceIdentifiers",
                                !.remaining = available, !.summaries = summaries]

\* lines 126, 304-313  await this.resourceIdentifiers()
resourceIdentifiers ==
    /\ asking.pc = "resourceIdentifiers"
    /\ \E ok \in BOOLEAN :
          asking' =
             IF ok
             THEN [asking EXCEPT
                     !.pc = "forResource", !.summaries = <<>>,
                     !.resourceIdentifiers = resourceIdentifiersOf(asking.summaries)]
             ELSE [asking EXCEPT
                     !.pc = "thrown", !.summaries = <<>>,
                     !.result = [kind |-> "error", message |-> ImportErrorMessages.resourceIdentifierSummaries]]

\* The state when askForResourceIdentifier returns outcome and identifier:
\* lines 129-136, the resource is pushed unless the identifier is undefined.
Resolved(state, outcome, identifier) ==
    [state EXCEPT
       !.pc = "forResource",
       !.outcome = outcome,
       !.identifier = identifier,
       !.ret = IF outcome = "identified"
               THEN [importResources |-> Append(@.importResources, state.logicalId),
                     resourceMap |-> Put(@.resourceMap, state.logicalId, identifier)]
               ELSE @]

\* lines 361-415  after the confirmations: skip the resource, or start the
\* input loop at the first property of the first set.
Prompting(state) ==
    IF skipAfterRejection(state.satisfiedPropSets) \/ state.idPropSets = <<>>
    THEN Resolved(state, "skipped", EmptyObject)
    ELSE [state EXCEPT !.pc = "prompt", !.set = 1, !.prop = 1, !.input = EmptyObject]

\* lines 128-129, 324-349.  The loop takes the next resource and
\* askForResourceIdentifier runs up to its first question; with no resource
\* left, the ImportMap is returned.
forResource ==
    /\ asking.pc = "forResource"
    /\ IF asking.remaining = 0
       THEN asking' = [asking EXCEPT !.pc = "returned",
                                     !.result = [kind |-> "ImportMap", message |-> ""]]
       ELSE \E chg \in ImportableResources :
               LET resourceType == chg.newResourceType
                   next == [asking EXCEPT
                              !.remaining = @ - 1, !.logicalId = @ + 1,
                              !.resource = chg, !.resourceProps = EmptyObject,
                              !.idPropSets = <<>>, !.satisfiedPropSets = <<>>,
                              !.set = 0, !.prop = 0, !.input = EmptyObject,
                              !.confirmations = <<>>, !.prompts = <<>>,
                              !.outcome = "none", !.identifier = EmptyObject]
               IN  asking' =
                      IF resourceType = ""
                            \/ resourceType \notin DOMAIN asking.resourceIdentifiers
                      THEN Resolved(next, "unsupported", EmptyObject)
                      ELSE LET idPropSets == asking.resourceIdentifiers[resourceType]
                               resourceProps == literalStrings(chg.Properties)
                               satisfiedPropSets == satisfied(idPropSets, resourceProps)
                               started == [next EXCEPT
                                             !.idPropSets = idPropSets,
                                             !.resourceProps = resourceProps,
                                             !.satisfiedPropSets = satisfiedPropSets]
                           IN  IF satisfiedPropSets # <<>>
                               THEN [started EXCEPT !.pc = "confirm", !.set = 1]
                               ELSE Prompting(started)

\* lines 345-365.  The user answers whether to import with the candidate.
confirm ==
    /\ asking.pc = "confirm"
    /\ \E importTheResource \in BOOLEAN :
          LET satisfiedPropSet == asking.satisfiedPropSets[asking.set]
              candidate == candidateProps(satisfiedPropSet, asking.resourceProps)
              asked == [asking EXCEPT
                          !.confirmations =
                              Append(@, [propSet |-> satisfiedPropSet,
                                         importTheResource |-> importTheResource])]
          IN  asking' =
                 IF importTheResource
                 THEN Resolved(asked, "identified", candidate)
                 ELSE IF asking.set < Len(asking.satisfiedPropSets)
                 THEN [asked EXCEPT !.set = @ + 1]
                 ELSE Prompting([asked EXCEPT !.set = 0])

\* lines 377-414.  The user answers the prompt for one property: the value
\* from the template is the default; an empty answer leaves the set.
prompt ==
    /\ asking.pc = "prompt"
    /\ LET idProps == asking.idPropSets[asking.set]
           idProp == idProps[asking.prop]
           defaultValue == IF idProp \in DOMAIN asking.resourceProps
                           THEN asking.resourceProps[idProp] ELSE ""
       IN  \E response \in {"", "x", defaultValue} :
              LET asked == [asking EXCEPT
                              !.prompts = Append(@, [set |-> asking.set,
                                                     idProp |-> idProp,
                                                     response |-> response])]
                  answered == [asked EXCEPT
                                 !.input = Put(@, idProp, response),
                                 !.resourceProps = Put(@, idProp, response)]
                  leftSet == IF response = "" THEN asked ELSE answered
              IN  asking' =
                     IF response # "" /\ asking.prop < Len(idProps)
                     THEN [answered EXCEPT !.prop = @ + 1]
                     ELSE IF complete(leftSet.input, idProps)
                     THEN Resolved(leftSet, "identified", leftSet.input)
                     ELSE IF asking.set < Len(asking.idPropSets)
                     THEN [leftSet EXCEPT !.set = @ + 1, !.prop = 1,
                                          !.input = EmptyObject]
                     ELSE Resolved(leftSet, "skipped", EmptyObject)

AskingNext ==
    \/ (\E available \in 0 .. MaxResources,
           summaries \in {<<>>} \cup {<<summary>> : summary \in ResourceIdentifierSummaries} :
           askForResourceIdentifiers(available, summaries))
           /\ UNCHANGED notAskingVars
    \/ resourceIdentifiers /\ UNCHANGED notAskingVars
    \/ forResource /\ UNCHANGED notAskingVars
    \/ confirm /\ UNCHANGED notAskingVars
    \/ prompt /\ UNCHANGED notAskingVars

AskingSpec == Init /\ [][AskingNext]_vars

\* The resource the loop is at has a type the service lists identifiers for.
Supported ==
    /\ asking.logicalId > 0
    /\ asking.resource.newResourceType \in DOMAIN asking.resourceIdentifiers

\* askForResourceIdentifier has returned for the resource the loop is at.
Resolution == asking.outcome # "none"

\* The property is a non-empty literal string in the desired template.
LiteralInTemplate(p) ==
    /\ asking.resource.Properties[p].type = "string"
    /\ asking.resource.Properties[p].value # ""

\* The positions of the identifier property sets the template satisfies.
SatisfiedSets ==
    {k \in 1 .. Len(asking.idPropSets) :
        \A i \in 1 .. Len(asking.idPropSets[k]) :
           LiteralInTemplate(asking.idPropSets[k][i])}

\* The k-th smallest element of a set of numbers.
Nth(S, k) == CHOOSE x \in S : Cardinality({y \in S : y < x}) = k - 1

Accepted == {i \in 1 .. Len(asking.confirmations) :
                asking.confirmations[i].importTheResource}

\* What both readings of C19 share: the satisfied sets are presented in
\* order, and the first one confirmed is the identifier, with the values of
\* the template.
ConfirmationPhase ==
    Supported =>
       /\ Len(asking.confirmations) <= Cardinality(SatisfiedSets)
       /\ \A i \in 1 .. Len(asking.confirmations) :
             /\ asking.confirmations[i].propSet = asking.idPropSets[Nth(SatisfiedSets, i)]
             /\ i < Len(asking.confirmations) => i \notin Accepted
       /\ (Resolution /\ SatisfiedSets # {}) =>
             \/ Accepted # {}
             \/ Len(asking.confirmations) = Cardinality(SatisfiedSets)
       /\ (Resolution /\ Accepted # {}) =>
             LET propSet == asking.confirmations[Len(asking.confirmations)].propSet
             IN  /\ asking.outcome = "identified"
                 /\ DOMAIN asking.identifier = {propSet[i] : i \in 1 .. Len(propSet)}
                 /\ \A p \in DOMAIN asking.identifier :
                       asking.identifier[p] = asking.resource.Properties[p].value

\* The prompts went on until one set was fully supplied or all were skipped.
PromptedToTheEnd ==
    /\ asking.prompts # <<>>
    /\ \/ asking.outcome = "identified"
       \/ /\ asking.outcome = "skipped"
          /\ {asking.prompts[i].set : i \in 1 .. Len(asking.prompts)}
                = 1 .. Len(asking.idPropSets)

\* C19 as stated: every satisfied identifier property set is presented for
\* confirmation and the first confirmed one is used; if the user rejects all
\* presented sets, or no set is satisfied, the resolver goes on to prompt
\* for each property in turn until one set is fully supplied or all are skipped.
C19_RejectedThenPrompted ==
    /\ ConfirmationPhase
    /\ (Supported /\ Resolution /\ asking.idPropSets # <<>> /\ Accepted = {}) =>
          PromptedToTheEnd

\* C19 amended: every satisfied identifier property set is presented for
\* confirmation, in order, and the first confirmed one is used; if the user
\* rejects all presented sets the resource is skipped without any prompt;
\* only if no set is satisfied does the resolver prompt for each property in
\* turn until one set is fully supplied or all are skipped.
C19_RejectedThenSkipped ==
    /\ ConfirmationPhase
    /\ (Supported /\ asking.prompts # <<>>) =>
          SatisfiedSets = {} /\ asking.confirmations = <<>>
    /\ (Supported /\ Resolution /\ SatisfiedSets # {} /\ Accepted = {}) =>
          /\ asking.outcome = "skipped" /\ asking.prompts = <<>>
          /\ asking.logicalId \notin DOMAIN asking.ret.resourceMap
    /\ (Supported /\ Resolution /\ asking.idPropSets # <<>> /\ SatisfiedSets = {}) =>
          PromptedToTheEnd

\* C19 witness: both satisfied sets were presented and rejected, and the
\* resource was skipped without a prompt.
C19_Witness ==
    /\ Resolution /\ asking.outcome = "skipped"
    /\ Len(asking.confirmations) = 2 /\ Accepted = {}
    /\ asking.prompts = <<>>

\* The prompts of set k, in the order they were put.
PromptsOf(k) == SelectSeq(asking.prompts, LAMBDA q : q.set = k)

\* The sets for which every property received a non-empty answer.
CompletedSets ==
    {k \in 1 .. Len(asking.idPropSets) :
        /\ Len(PromptsOf(k)) = Len(asking.idPropSets[k])
        /\ \A i \in 1 .. Len(PromptsOf(k)) : PromptsOf(k)[i].response # ""}

\* C20: in the prompt phase the property sets are tried in the order the
\* service listed them and the properties of a set in order; an empty
\* answer abandons the set without prompting its remaining properties; the
\* result is the first set for which every property received a non-empty
\* answer, with exactly that set's properties and the answered values; if no
\* set is completed the resource is in neither importResources nor resourceMap.
C20_PromptPhase ==
    asking.prompts # <<>> =>
       LET prompts == asking.prompts
           n == Len(prompts)
       IN  /\ prompts[1].set = 1
           /\ \A i \in 1 .. n :
                 LET k == prompts[i].set
                     position == Cardinality({j \in 1 .. i : prompts[j].set = k})
                 IN  /\ k \in 1 .. Len(asking.idPropSets)
                     /\ position <= Len(asking.idPropSets[k])
                     /\ prompts[i].idProp = asking.idPropSets[k][position]
                     /\ i < n => prompts[i + 1].set =
                                    IF prompts[i].response = "" THEN k + 1 ELSE k
           /\ Resolution =>
                 /\ (asking.outcome = "identified") <=> (CompletedSets # {})
                 /\ asking.outcome \in {"identified", "skipped"}
           /\ (Resolution /\ asking.outcome = "identified") =>
                 LET first == Nth(CompletedSets, 1)
                     idProps == asking.idPropSets[first]
                 IN  /\ DOMAIN asking.identifier = {idProps[i] : i \in 1 .. Len(idProps)}
                     /\ \A i \in 1 .. Len(idProps) :
                           asking.identifier[idProps[i]] = PromptsOf(first)[i].response
                     /\ asking.ret.importResources[Len(asking.ret.importResources)]
                           = asking.logicalId
                     /\ asking.ret.resourceMap[asking.logicalId] = asking.identifier
           /\ (Resolution /\ asking.outcome = "skipped") =>
                 /\ \A i \in 1 .. Len(asking.ret.importResources) :
                       asking.ret.importResources[i] # asking.logicalId
                 /\ asking.logicalId \notin DOMAIN asking.ret.resourceMap

\* C20 witness: the first set (A,B) was abandoned at B, the second set (B,C)
\* was answered in full and is the identifier.
C20_Witness ==
    /\ Resolution /\ asking.outcome = "identified"
    /\ Len(asking.prompts) = 4 /\ asking.prompts[2].response = ""
    /\ asking.prompts[1].response # ""
    /\ DOMAIN asking.identifier = {<<"B">>, <<"C">>}

\* --------------------------------------------- import from a mapping file
\* ResourceImporter.loadResourceIdentifiers and importResourcesFromMap, on the
\* importer that discoverImportableResources has run on.

\* line 422  resourceDiff.newResourceType, the Type in the desired template
newResourceType(logicalId) ==
    LET Type == [id \in {"Bucket", "Queue", "Topic"} |->
                    CASE id = "Bucket" -> "AWS::S3::Bucket"
                      [] id = "Queue" -> "AWS::SQS::Queue"
                      [] id = "Topic" -> "AWS::SNS::Topic"]
    IN  IF logicalId \in DOMAIN Type THEN Type[logicalId] ELSE "AWS::CDK::Metadata"

\* The contents, nothing deleted.
DeleteNothing(obj, key) == obj

\* line 156  delete contents[resource.logicalId]
Delete(obj, key) == [k \in DOMAIN obj \ {key} |-> obj[k]]

\* lines 143-144.  The importer holds the deployed template
\* this._currentTemplate (lines 275-280) since discoverImportableResources
\* read and diffed it: it has the resources whose change is not an addition,
\* as deployed (without a DeletionPolicy); with no such resource it has no
\* Resources section, an empty one, or one with a resource the desired
\* template leaves as it is.
loadResourceIdentifiers(available) ==
    /\ importing.pc = "idle"
    /\ LET changes == discovery.changes
           deployed == {changes[j].logicalId :
                           j \in {k \in 1 .. Len(changes) : changes[k].kind # "add"}}
           Resources(ids) ==
              Some([id \in ids |-> [DeletionPolicy |-> "", definition |-> "deployed"]])
           CurrentTemplates ==
              IF deployed = {}
              THEN {[Resources |-> Undefined], [Resources |-> Resources({})],
                    [Resources |-> Resources({"Existing"})]}
              ELSE {[Resources |-> Resources(deployed)]}
       IN  \E template \in CurrentTemplates :
              importing' = [importing EXCEPT !.pc = "readJson",
                                             !.available = available,
                                             !._currentTemplate = template,
                                             !.deployed = template]

\* lines 144-146  await fs.readJson(filename).  A mapping file is a JSON
\* object of logical id -> identifier properties; identifier properties are
\* objects (an object is truthy in "if (idProps)" even when empty, as the
\* one of the bucket may be).
readJson ==
    /\ importing.pc = "readJson"
    /\ \E ok \in BOOLEAN,
          contents \in
             {file \in UNION {[keys -> {EmptyObject, Put(EmptyObject, <<"A">>, "v")}] :
                                 keys \in SUBSET {"Bucket", "Queue", "Other"}} :
                 \A key \in DOMAIN file \ {"Bucket"} : file[key] # EmptyObject} :
          importing' =
             IF ok
             THEN [importing EXCEPT !.pc = "forCandidate", !.i = 1,
                                    !.file = contents, !.contents = contents]
             ELSE [importing EXCEPT
                     !.pc = "thrown",
                     !.result = [kind |-> "error", message |-> ImportErrorMessages.readJson]]

\* lines 147-167.  One iteration of the loop: the candidate is imported with
\* the identifier of the file, or skipped.  After the last candidate the
\* keys left in contents are reported and the ImportMap is returned.
forCandidate ==
    /\ importing.pc = "forCandidate"
    /\ importing' =
          IF importing.i <= Len(importing.available)
          THEN LET resource == importing.available[importing.i]
                   descr == describeResource(resource.logicalId)
               IN  IF resource.logicalId \in DOMAIN importing.contents
                   THEN LET idProps == importing.contents[resource.logicalId]
                        IN  [importing EXCEPT
                               !.i = @ + 1,
                               !.log = Append(@, [level |-> "info",
                                                  message |-> "importing using",
                                                  about |-> {descr}]),
                               !.ret = [importResources |->
                                           Append(@.importResources, resource),
                                        resourceMap |->
                                           Put(@.resourceMap, resource.logicalId, idProps)],
                               !.contents = Delete(@, resource.logicalId)]
                   ELSE [importing EXCEPT
                           !.i = @ + 1,
                           !.log = Append(@, [level |-> "info", message |-> "skipping",
                                              about |-> {descr}])]
          ELSE LET unknown == DOMAIN importing.contents
               IN  [importing EXCEPT
                      !.pc = "loaded",
                      !.log = IF unknown # {}
                              THEN Append(@, [level |-> "warn",
                                              message |-> "Unrecognized resource identifiers in mapping file",
                                              about |-> unknown])
                              ELSE @,
                      !.result = [kind |-> "ImportMap", message |-> ""]]

\* lines 420-426
makeResourcesToImport(resourceMap) ==
    [k \in 1 .. Len(resourceMap.importResources) |->
        LET res == resourceMap.importResources[k]
        IN  [LogicalResourceId |-> res.logicalId,
             ResourceType |-> newResourceType(res.logicalId),
             ResourceIdentifier |-> resourceMap.resourceMap[res.logicalId]]]

\* The additions alone, without the resources of the template.
additionsOnly(template, adds) ==
    [template EXCEPT
       !.Resources =
          Some([id \in {adds[k].logicalId : k \in 1 .. Len(adds)} |->
                   LET k == CHOOSE k \in 1 .. Len(adds) : adds[k].logicalId = id
                   IN  [DeletionPolicy |-> adds[k].DeletionPolicy,
                        definition |-> "desired"]])]

\* lines 285-296, on the template this.currentTemplate() returns: the
\* Resources section is created when missing and every addition is assigned
\* under its logical id, a later one replacing an earlier one.  The
\* resourceDefinition of an addition (line 257) is the resource of the
\* desired template, with the DeletionPolicy discovery gave it.
currentTemplateWithAdditions(template, adds) ==
    LET resourceDefinition(resource) ==
           [DeletionPolicy |-> resource.DeletionPolicy, definition |-> "desired"]
        Resources == IF template.Resources = Undefined
                     THEN EmptyObject ELSE template.Resources[1]
        added == {adds[k].logicalId : k \in 1 .. Len(adds)}
        last(id) == CHOOSE k \in 1 .. Len(adds) :
                       /\ adds[k].logicalId = id
                       /\ \A j \in 1 .. Len(adds) : adds[j].logicalId = id => j <= k
    IN  [template EXCEPT
           !.Resources =
              Some([id \in DOMAIN Resources \cup added |->
                       IF id \in added
                       THEN resourceDefinition(adds[last(id)])
                       ELSE Resources[id]])]

\* lines 177-181, 198-206.  The structures for the import are prepared (the
\* deployed template is cached, and is patched in place) and deployStack is
\* called with them.
importResourcesFromMap(importMap) ==
    /\ importing.pc = "loaded"
    /\ LET resourcesToImport == makeResourcesToImport(importMap)
           updatedTemplate ==
              currentTemplateWithAdditions(importing._currentTemplate,
                                           importMap.importResources)
       IN  importing' =
              [importing EXCEPT
                 !.pc = "deployStack",
                 !._currentTemplate = updatedTemplate,
                 !.deployStack = [sent |-> TRUE, deployName |-> deployName,
                                  overrideTemplate |-> updatedTemplate,
                                  resourcesToImport |-> resourcesToImport]]

\* lines 200-218.  deployStack returns a successful result, returns another
\* result, or throws; a failure is notified and rethrown.
importResources ==
    /\ importing.pc = "deployStack"
    /\ \E outcome \in {"did-deploy-stack", "noOp", "failpaused-need-rollback-first",
                       "error"} :
          importing' =
             IF outcome \in {"did-deploy-stack", "noOp"}
             THEN [importing EXCEPT
                     !.pc = "imported",
                     !.log = Append(@, [level |-> "info",
                                        message |-> IF outcome = "noOp"
                                                    THEN "(no changes)" ELSE "done",
                                        about |-> {deployName}]),
                     !.result = [kind |-> "result", message |-> ""]]
             ELSE LET e == IF outcome = "error"
                           THEN ImportErrorMessages.deployStack
                           ELSE ImportErrorMessages.assertIsSuccessfulDeployStackResult
                  IN  [importing EXCEPT
                         !.pc = "thrown",
                         !.log = Append(@, [level |-> "error", message |-> e,
                                            about |-> {deployName}]),
                         !.result = [kind |-> "error", message |-> e]]

\* One import on one importer: the diff, then the identifiers from a mapping
\* file and the import deployment; or the identifiers asked of the user.
ImportNext ==
    \/ (asking.pc = "idle" /\ discovery.pc = "idle"
           /\ \E allowNonAdditions \in BOOLEAN, changes \in ResourceChangeLists :
                 discoverImportableResources(allowNonAdditions, changes))
           /\ UNCHANGED notDiscoveryVars
    \/ currentTemplate /\ UNCHANGED notDiscoveryVars
    \/ (discovery.pc = "returned" /\ loadResourceIdentifiers(discovery.additions))
           /\ UNCHANGED notImportingVars
    \/ readJson /\ UNCHANGED notImportingVars
    \/ forCandidate /\ UNCHANGED notImportingVars
    \/ importResourcesFromMap(importing.ret) /\ UNCHANGED notImportingVars
    \/ importResources /\ UNCHANGED notImportingVars
    \/ (discovery.pc = "idle" /\ asking.pc = "idle"
           /\ \E available \in 0 .. MaxResources,
                 summaries \in {<<>>} \cup {<<summary>> : summary \in ResourceIdentifierSummaries} :
                 askForResourceIdentifiers(available, summaries))
           /\ UNCHANGED notAskingVars
    \/ resourceIdentifiers /\ UNCHANGED notAskingVars
    \/ forResource /\ UNCHANGED notAskingVars
    \/ confirm /\ UNCHANGED notAskingVars
    \/ prompt /\ UNCHANGED notAskingVars

ImportSpec == Init /\ [][ImportNext]_vars

\* The resources of the template submitted to deployStack.
Submitted == importing.deployStack.overrideTemplate.Resources[1]

\* The logical ids selected in the ImportMap, in its order.
Selected ==
    [k \in 1 .. Len(importing.ret.importResources) |->
        importing.ret.importResources[k].logicalId]

\* The DeletionPolicy a resource declared before the import step ("" for
\* none): that of the desired template for an addition, else that of the
\* deployed template.
DeclaredPolicy(logicalId) ==
    LET at == {k \in 1 .. Len(discovery.changes) :
                  /\ discovery.changes[k].logicalId = logicalId
                  /\ discovery.changes[k].kind = "add"}
    IN  IF at # {} THEN discovery.changes[CHOOSE k \in at : TRUE].DeletionPolicy ELSE ""

\* The deployment carries, for each selected resource and in the order of
\* the ImportMap, its logical id, its new resource type and the identifier
\* the ImportMap (here: the mapping file) has for it.
CarriesIdentifiers ==
    LET resourcesToImport == importing.deployStack.resourcesToImport
    IN  /\ Len(resourcesToImport) = Len(Selected)
        /\ \A k \in 1 .. Len(Selected) :
              /\ resourcesToImport[k].LogicalResourceId = Selected[k]
              /\ resourcesToImport[k].ResourceType = newResourceType(Selected[k])
              /\ resourcesToImport[k].ResourceIdentifier
                    = importing.ret.resourceMap[Selected[k]]
              /\ resourcesToImport[k].ResourceIdentifier = importing.file[Selected[k]]

\* C21 as stated: in the template importResourcesFromMap submits, every
\* resource that lacked a DeletionPolicy carries 'Retain' and a resource
\* that declared one keeps it; and the deployment carries, for each selected
\* resource, its logical id, new resource type and resolved identifier.
C21_EveryResourceRetained ==
    importing.deployStack.sent =>
       /\ \A id \in DOMAIN Submitted :
             Submitted[id].DeletionPolicy
                = IF DeclaredPolicy(id) = "" THEN "Retain" ELSE DeclaredPolicy(id)
       /\ CarriesIdentifiers

\* C21, amended: in the template importResourcesFromMap submits, every
\* resource selected in the ImportMap that lacked a DeletionPolicy in the
\* desired template carries 'Retain' and one that declared a DeletionPolicy
\* keeps it (the resources of the deployed template are submitted as they
\* are deployed); and the deployment carries, for each selected resource,
\* its logical id, new resource type and resolved identifier.
C21_SelectedResourcesRetained ==
    importing.deployStack.sent =>
       /\ \A k \in 1 .. Len(Selected) :
             /\ Selected[k] \in DOMAIN Submitted
             /\ Submitted[Selected[k]].DeletionPolicy
                   = IF DeclaredPolicy(Selected[k]) = ""
                     THEN "Retain" ELSE DeclaredPolicy(Selected[k])
       /\ CarriesIdentifiers

\* An import was submitted with two selected resources, one that declared
\* no DeletionPolicy and one that declared 'Delete'.
C21_Witness ==
    /\ importing.deployStack.sent
    /\ Len(Selected) = 2
    /\ \E j, k \in 1 .. 2 :
          /\ DeclaredPolicy(Selected[j]) = "" /\ Submitted[Selected[j]].DeletionPolicy = "Retain"
          /\ DeclaredPolicy(Selected[k]) = "Delete"
          /\ Submitted[Selected[k]].DeletionPolicy = "Delete"

\* loadResourceIdentifiers has returned its ImportMap.
LoadReturned ==
    \/ importing.pc \in {"loaded", "deployStack", "imported"}
    \/ importing.pc = "thrown" /\ importing.deployStack.sent

\* The logical ids of the candidates given to loadResourceIdentifiers.
Candidates == {importing.available[k].logicalId : k \in 1 .. Len(importing.available)}

\* The log lines with the given level and message.
Lines(level, message) ==
    SelectSeq(importing.log, LAMBDA line : line.level = level /\ line.message = message)

\* C22: loadResourceIdentifiers imports exactly the candidates whose logical
\* id is a key of the mapping file, each with the identifier properties the
\* file gives it; every candidate without an entry is skipped with a log
\* line (and only those are); and a warning that lists the keys is emitted
\* exactly when the file has keys that match no candidate.
C22_FileDrivenImport ==
    LoadReturned =>
       LET imported == {Selected[k] : k \in 1 .. Len(Selected)}
           skipped == Candidates \ DOMAIN importing.file
           unmatched == DOMAIN importing.file \ Candidates
           skipping == Lines("info", "skipping")
           warnings == Lines("warn", "Unrecognized resource identifiers in mapping file")
       IN  /\ imported = Candidates \cap DOMAIN importing.file
           /\ DOMAIN importing.ret.resourceMap = imported
           /\ \A id \in imported : importing.ret.resourceMap[id] = importing.file[id]
           /\ Len(Lines("info", "importing using")) = Cardinality(imported)
           /\ Len(skipping) = Cardinality(skipped)
           /\ \A id \in skipped :
                 \E k \in 1 .. Len(skipping) : skipping[k].about = {describeResource(id)}
           /\ (warnings # <<>>) <=> (unmatched # {})
           /\ Len(warnings) <= 1
           /\ \A k \in 1 .. Len(warnings) : warnings[k].about = unmatched

\* A file with an entry for one of two candidates and an entry that matches
\* no candidate has been loaded: one import, one skip, one warning.
C22_Witness ==
    /\ LoadReturned
    /\ Len(importing.available) = 2
    /\ Len(Selected) = 1
    /\ Len(Lines("info", "skipping")) = 1
    /\ Cardinality(DOMAIN importing.file) = 2
    /\ Len(Lines("warn", "Unrecognized resource identifiers in mapping file")) = 1

\* The position of a logical id in the candidates of loadResourceIdentifiers.
PositionOf(logicalId) ==
    CHOOSE k \in 1 .. Len(importing.available) :
       importing.available[k].logicalId = logicalId

\* C23: the ImportMap that askForResourceIdentifiers or
\* loadResourceIdentifiers returns is consistent: the logical ids of
\* importResources are exactly the keys of resourceMap, each of them is a
\* candidate of the input list, and importResources lists them in the order
\* of the input (for askForResourceIdentifiers a logical id is the position
\* of the candidate in the input).
C23_ImportMapConsistent ==
    /\ LoadReturned =>
          /\ {Selected[k] : k \in 1 .. Len(Selected)} = DOMAIN importing.ret.resourceMap
          /\ \A k \in 1 .. Len(Selected) : Selected[k] \in Candidates
          /\ \A j, k \in 1 .. Len(Selected) :
                j < k => PositionOf(Selected[j]) < PositionOf(Selected[k])
    /\ asking.pc = "returned" =>
          LET asked == asking.ret.importResources
          IN  /\ {asked[k] : k \in 1 .. Len(asked)}
                    = DOMAIN asking.ret.resourceMap
              /\ \A k \in 1 .. Len(asked) :
                    asked[k] \in 1 .. (asking.logicalId + asking.remaining)
              /\ \A j, k \in 1 .. Len(asked) :
                    j < k => asked[j] < asked[k]

\* askForResourceIdentifiers has returned an ImportMap with the second of
\* two candidates only.
C23_Witness ==
    /\ asking.pc = "returned"
    /\ asking.logicalId = 2
    /\ asking.ret.importResources = <<2>>
    /\ DOMAIN asking.ret.resourceMap = {2}

\* loadResourceIdentifiers has returned an ImportMap with both candidates.
LoadedBoth ==
    LoadReturned /\ Len(importing.available) = 2 /\ Len(Selected) = 2

\* The resources of the deployed template, as the importer read them (none
\* when the template has no Resources section).
DeployedResources ==
    IF importing.deployed.Resources = Undefined
    THEN EmptyObject ELSE importing.deployed.Resources[1]

\* The logical ids of the changes of the desired template of the given kinds.
ChangedIds(kinds) ==
    {discovery.changes[k].logicalId :
        k \in {j \in 1 .. Len(discovery.changes) : discovery.changes[j].kind \in kinds}}

\* C38: the template importResourcesFromMap submits consists of all resources
\* of the deployed template, as deployed, plus exactly the resources selected
\* in the ImportMap, each with its definition of the desired template (and
\* the DeletionPolicy discovery gave it); a candidate skipped during
\* identifier resolution is not in it, and a resource the desired template
\* updates or removes is in it only as deployed.
C38_SubmittedTemplate ==
    importing.deployStack.sent =>
       LET selected == {Selected[k] : k \in 1 .. Len(Selected)}
           skipped == Candidates \ DOMAIN importing.file
       IN  /\ DOMAIN Submitted = DOMAIN DeployedResources \cup selected
           /\ DOMAIN DeployedResources \cap selected = {}
           /\ \A id \in DOMAIN DeployedResources : Submitted[id] = DeployedResources[id]
           /\ \A id \in selected :
                 /\ Submitted[id].definition = "desired"
                 /\ Submitted[id].DeletionPolicy
                       = addDefaultDeletionPolicy(DeclaredPolicy(id))
           /\ skipped \cap DOMAIN Submitted = {}
           /\ \A id \in ChangedIds({"update", "remove"}) :
                 id \in DOMAIN Submitted => Submitted[id].definition = "deployed"

\* An import was submitted with one resource of the deployed template, one
\* selected addition and one skipped candidate: the template has the first
\* two.
C38_Witness ==
    /\ importing.deployStack.sent
    /\ Len(Selected) = 1
    /\ Cardinality(Candidates \ DOMAIN importing.file) = 1
    /\ Cardinality(DOMAIN DeployedResources) = 1
    /\ DOMAIN Submitted = DOMAIN DeployedResources \cup {Selected[1]}
    /\ Submitted[Selected[1]].definition = "desired"

\* ------------------------------------------------------ template parameters
\* TemplateParameters and ParameterValues: the resolution of the values of
\* the template's parameters for a deployment, and the change detection.

\* The most parameters a template declares.
MaxParameters == 1

\* The names of the parameters, in the order the template declares them.
ParameterNames == <<"TheParameter", "Foo", "Baz">>

\* SSMPARAM_NO_INVALIDATE of @aws-cdk/cx-api
SSMPARAM_NO_INVALIDATE == "[cdk:skip]"

\* The override wins only when it is not empty.
ParameterSourceTruthy(updatedValue, hasPrevious, Default) ==
    IF updatedValue \notin {Undefined, Some("")} THEN "update"
    ELSE IF hasPrevious THEN "previous"
    ELSE IF Default # Undefined THEN "default"
    ELSE "missing"

\* The default is preferred to the previous value.
ParameterSourceDefaultFirst(updatedValue, hasPrevious, Default) ==
    IF updatedValue # Undefined THEN "update"
    ELSE IF Default # Undefined THEN "default"
    ELSE IF hasPrevious THEN "previous"
    ELSE "missing"

\* Where the value of a declared parameter comes from: the override if there
\* is one (the empty string is one), else the previous value if the stack has
\* one, else the default of the template if it declares one; else the
\* parameter is missing a value.
ParameterSource(updatedValue, hasPrevious, Default) ==
    IF updatedValue # Undefined THEN "update"
    ELSE IF hasPrevious THEN "previous"
    ELSE IF Default # Undefined THEN "default"
    ELSE "missing"

\* new ParameterValues(formalParams, updates, previousValues): each declared
\* parameter is resolved in the order of declaration, an override and a
\* previous value make an API parameter; then come the overrides of
\* undeclared parameters that have a (truthy) value.  The default of a
\* parameter left to the service is its value.  Keys is Object.keys of an
\* object whose keys are parameter names: in the order of declaration, the
\* undeclared "Bar" last.
ParameterValues(formalParams, updates, previousValues) ==
    LET override(key) == IF key \in DOMAIN updates THEN updates[key] ELSE Undefined
        source(key) ==
           ParameterSource(override(key), key \in DOMAIN previousValues,
                           formalParams[key].Default)
        Keys(obj) == SelectSeq(ParameterNames \o <<"Bar">>, LAMBDA key : key \in DOMAIN obj)
        declared == Keys(formalParams)
        unknown == SelectSeq(Keys(updates),
                             LAMBDA key : key \notin DOMAIN formalParams
                                             /\ updates[key] \notin {Undefined, Some("")})
        supplied == SelectSeq(declared, LAMBDA key : source(key) \in {"update", "previous"})
        valued == SelectSeq(declared, LAMBDA key : source(key) # "missing") \o unknown
    IN  [values |->
            [key \in {valued[k] : k \in 1 .. Len(valued)} |->
                IF key \notin DOMAIN formalParams THEN updates[key][1]
                ELSE IF source(key) = "update" THEN override(key)[1]
                ELSE IF source(key) = "previous" THEN previousValues[key]
                ELSE formalParams[key].Default[1]],
         apiParameters |->
            [k \in 1 .. Len(supplied) |->
                IF source(supplied[k]) = "update"
                THEN [ParameterKey |-> supplied[k],
                      ParameterValue |-> override(supplied[k]),
                      UsePreviousValue |-> FALSE]
                ELSE [ParameterKey |-> supplied[k], ParameterValue |-> Undefined,
                      UsePreviousValue |-> TRUE]]
               \o [k \in 1 .. Len(unknown) |->
                      [ParameterKey |-> unknown[k], ParameterValue |-> updates[unknown[k]],
                       UsePreviousValue |-> FALSE]],
         missingRequired |-> SelectSeq(declared, LAMBDA key : source(key) = "missing")]

\* Only the names of the parameters are compared, not their values.
hasChangesKeysOnly(formalParams, values, currentValues) ==
    IF \E key \in DOMAIN formalParams :
          /\ formalParams[key].Type[1] = "AWS::SSM::Parameter::"
          /\ \/ formalParams[key].Description = Undefined
             \/ \A k \in 1 .. Len(formalParams[key].Description[1]) :
                   formalParams[key].Description[1][k] # SSMPARAM_NO_INVALIDATE
    THEN "ssm"
    ELSE IF DOMAIN currentValues # DOMAIN values THEN "true" ELSE "false"

\* The SSM parameters always count as changed, marker or not.
hasChangesNoMarker(formalParams, values, currentValues) ==
    IF \E key \in DOMAIN formalParams :
          formalParams[key].Type[1] = "AWS::SSM::Parameter::"
    THEN "ssm"
    ELSE IF \E key \in DOMAIN currentValues :
               key \notin DOMAIN values \/ currentValues[key] # values[key]
    THEN "true"
    ELSE IF \E key \in DOMAIN values : key \notin DOMAIN currentValues
    THEN "true" ELSE "false"

\* New values do not count as a change.
hasChangesExistingOnly(formalParams, values, currentValues) ==
    IF \E key \in DOMAIN formalParams :
          /\ formalParams[key].Type[1] = "AWS::SSM::Parameter::"
          /\ \/ formalParams[key].Description = Undefined
             \/ \A k \in 1 .. Len(formalParams[key].Description[1]) :
                   formalParams[key].Description[1][k] # SSMPARAM_NO_INVALIDATE
    THEN "ssm"
    ELSE IF \E key \in DOMAIN currentValues :
               key \in DOMAIN values /\ currentValues[key] # values[key]
    THEN "true" ELSE "false"

\* A value counts as changed whenever the stack has one.
hasChangesAlways(formalParams, values, currentValues) ==
    IF \E key \in DOMAIN formalParams :
          /\ formalParams[key].Type[1] = "AWS::SSM::Parameter::"
          /\ \/ formalParams[key].Description = Undefined
             \/ \A k \in 1 .. Len(formalParams[key].Description[1]) :
                   formalParams[key].Description[1][k] # SSMPARAM_NO_INVALIDATE
    THEN "ssm"
    ELSE IF DOMAIN currentValues \cup DOMAIN values # {} THEN "true" ELSE "false"

\* ParameterValues.hasChanges(currentValues): 'ssm' when a declared
\* parameter has an SSM type (its Type starts with AWS::SSM::Parameter::) and
\* its description does not include the no-invalidate marker; else true when
\* a current value is gone or differs from the value resolved, or a value
\* resolved is new; else false.
hasChanges(formalParams, values, currentValues) ==
    IF \E key \in DOMAIN formalParams :
          /\ formalParams[key].Type[1] = "AWS::SSM::Parameter::"
          /\ \/ formalParams[key].Description = Undefined
             \/ \A k \in 1 .. Len(formalParams[key].Description[1]) :
                   formalParams[key].Description[1][k] # SSMPARAM_NO_INVALIDATE
    THEN "ssm"
    ELSE IF \E key \in DOMAIN currentValues :
               key \notin DOMAIN values \/ currentValues[key] # values[key]
    THEN "true"
    ELSE IF \E key \in DOMAIN values : key \notin DOMAIN currentValues
    THEN "true" ELSE "false"

\* TemplateParameters.fromTemplate(template): template.Parameters || {}
fromTemplate(Parameters) ==
    /\ stackParams.pc = "idle"
    /\ stackParams' = [stackParams EXCEPT
                         !.pc = "fromTemplate",
                         !.formalParams = IF Parameters = Undefined
                                          THEN EmptyObject ELSE Parameters[1]]

\* The ParameterValues are constructed, a parameter that is missing a
\* value is left out.
resolveParametersLenient(usePreviousParameters, updates, parameters) ==
    /\ stackParams.pc = "fromTemplate"
    /\ LET resolved == ParameterValues(stackParams.formalParams, updates,
                                       IF usePreviousParameters
                                       THEN parameters ELSE EmptyObject)
       IN  stackParams' = [stackParams EXCEPT
                             !.pc = "resolved",
                             !.usePreviousParameters = usePreviousParameters,
                             !.updates = updates, !.parameters = parameters,
                             !.values = resolved.values,
                             !.apiParameters = resolved.apiParameters]

\* The ParameterValues are constructed from the overrides and, when previous
\* values may be used (usePreviousParameters, deployments.ts:123-130:
\* updateExisting), from the parameters of the deployed stack; else from the
\* overrides alone (supplyAll).  The constructor throws when a parameter is
\* missing a value; join is Array.prototype.join(', ') on a list of names,
\* giving a sequence of tokens.
resolveParameters(usePreviousParameters, updates, parameters) ==
    /\ stackParams.pc = "fromTemplate"
    /\ LET RECURSIVE join(_)
           join(names) ==
              IF Len(names) <= 1 THEN names
              ELSE <<Head(names), ", ">> \o join(Tail(names))
           resolved == ParameterValues(stackParams.formalParams, updates,
                                       IF usePreviousParameters
                                       THEN parameters ELSE EmptyObject)
           next == [stackParams EXCEPT
                      !.usePreviousParameters = usePreviousParameters,
                      !.updates = updates, !.parameters = parameters]
       IN  stackParams' =
              IF resolved.missingRequired # <<>>
              THEN [next EXCEPT
                      !.pc = "thrown",
                      !.result = [kind |-> "error",
                                  message |->
                                     <<DeployErrorMessages.missingValue \o ": ">>
                                        \o join(resolved.missingRequired)]]
              ELSE [next EXCEPT !.pc = "resolved",
                                !.values = resolved.values,
                                !.apiParameters = resolved.apiParameters]

\* stackParams.hasChanges(cloudFormationStack.parameters)
compareParameters ==
    /\ stackParams.pc = "resolved"
    /\ stackParams' = [stackParams EXCEPT
                         !.pc = "compared",
                         !.hasChanges = hasChanges(stackParams.formalParams,
                                                   stackParams.values,
                                                   stackParams.parameters)]

\* deployments.ts:428-450  return deployStack({...}): the error of the
\* parameter resolution leaves Deployments.deployStack.
rejectMissingValue ==
    /\ deploy.pc = "submit"
    /\ stackParams.pc = "thrown"
    /\ deploy' = [deploy EXCEPT
                    !.pc = "thrown",
                    !.result = [kind |-> "error",
                                message |-> DeployErrorMessages.missingValue]]

\* The parameters of one deployment with a deployment method left to its
\* default: Deployments.deployStack gets access to the environment, checks
\* the bootstrap version and hands over to the deployStack that resolves the
\* parameters of the template (parameters and usePreviousParameters,
\* deployments.ts:441-442), compares them with those of the deployed stack
\* and then submits the change.  A template declares up to MaxParameters
\* parameters, each of type String, or of an SSM type whose description has
\* the no-invalidate marker or is missing, with a default or without (a
\* string that is searched is a sequence of tokens).  The overrides are
\* none (undefined), the empty string or a value for each declared
\* parameter, and possibly a value for a parameter the template does not
\* declare.  The deployed stack has a value for some of the parameters.
ParameterNext ==
    \/ (deploy.pc = "idle"
           /\ \E o \in DeployStackOptions :
                 ~o.deploymentMethod /\ ~o.legacyChangeSet /\ deployStack(o))
           /\ UNCHANGED notDeployVars
    \/ deployAccessStack /\ UNCHANGED notDeployVars
    \/ deployValidateVersion /\ UNCHANGED notDeployVars
    \/ deployReplacePlaceholders /\ UNCHANGED notDeployVars
    \/ (deploy.pc = "submit" /\ stackParams.pc = "idle"
           /\ LET TemplateParameter ==
                     [Type : {<<"String">>}, Description : {Undefined},
                      Default : {Undefined, Some("TheDefault")}]
                        \cup [Type : {<<"AWS::SSM::Parameter::", "Name">>},
                              Description : {Undefined,
                                             Some(<<"blabla ", SSMPARAM_NO_INVALIDATE>>)},
                              Default : {Undefined, Some("TheDefault")}]
                  FormalParams(n) ==
                     [{ParameterNames[k] : k \in 1 .. n} -> TemplateParameter]
              IN  \E Parameters \in {Undefined}
                        \cup {Some(params) :
                                 params \in UNION {FormalParams(n) :
                                                      n \in 0 .. MaxParameters}} :
                     fromTemplate(Parameters))
           /\ UNCHANGED notStackParamsVars
    \/ (stackParams.pc = "fromTemplate"
           /\ LET keys == DOMAIN stackParams.formalParams
                  declared == [keys -> {Undefined, Some(""), Some("Foo")}]
                  Updates ==
                     declared \cup {Put(updates, "Bar", Some("Bar")) : updates \in declared}
                  StackParameters ==
                     UNION {[previous -> {"TheDefault", "Foo"}] : previous \in SUBSET keys}
              IN  \E usePreviousParameters \in BOOLEAN, updates \in Updates,
                     parameters \in StackParameters :
                     resolveParameters(usePreviousParameters, updates, parameters))
           /\ UNCHANGED notStackParamsVars
    \/ compareParameters /\ UNCHANGED notStackParamsVars
    \/ (stackParams.pc = "compared" /\ deploySubmit) /\ UNCHANGED notDeployVars
    \/ rejectMissingValue /\ UNCHANGED notDeployVars

ParameterSpec == Init /\ [][ParameterNext]_vars

\* The parameters have been resolved to values.
ValuesResolved == stackParams.pc \in {"resolved", "compared"}

\* The parameters the template declares.
Declared == DOMAIN stackParams.formalParams

\* The override supplied for a declared parameter (Undefined: none).
Override(key) ==
    IF key \in DOMAIN stackParams.updates THEN stackParams.updates[key] ELSE Undefined

\* The deployed stack has a value for the parameter.
Deployed(key) == key \in DOMAIN stackParams.parameters

\* The entries of the API parameter list for a parameter.
EntriesFor(key) ==
    SelectSeq(stackParams.apiParameters, LAMBDA entry : entry.ParameterKey = key)

\* The parameter is sourced from the parameter store (an SSM type), and
\* whether its description carries the no-invalidate marker.
IsSsm(key) == stackParams.formalParams[key].Type[1] = "AWS::SSM::Parameter::"

HasMarker(key) ==
    /\ stackParams.formalParams[key].Description # Undefined
    /\ \E k \in 1 .. Len(stackParams.formalParams[key].Description[1]) :
          stackParams.formalParams[key].Description[1][k] = SSMPARAM_NO_INVALIDATE

\* The parameters count as changed.
Changed == stackParams.hasChanges \in {"true", "ssm"}

\* Nothing but the given parameter can make the parameters count as changed:
\* every other declared parameter keeps the value the stack has for it and
\* is no SSM parameter without marker, and no override is supplied for an
\* undeclared parameter.
OthersUnchanged(key) ==
    /\ DOMAIN stackParams.updates \subseteq Declared
    /\ \A other \in Declared \ {key} :
          /\ ~(IsSsm(other) /\ ~HasMarker(other))
          /\ Deployed(other)
          /\ other \in DOMAIN stackParams.values
          /\ stackParams.values[other] = stackParams.parameters[other]

\* C24: in updateExisting, whenever an override is supplied for a parameter,
\* the empty string included, the API parameter list has for it the entry
\* {ParameterKey, ParameterValue: override} and no use-previous entry,
\* whether or not the template has a default and the stack a previous value;
\* and such a parameter is never reported as missing a value.
C24_OverrideUsed ==
    stackParams.usePreviousParameters =>
       \A key \in Declared :
          Override(key) # Undefined =>
             /\ ValuesResolved =>
                   EntriesFor(key) = <<[ParameterKey |-> key,
                                        ParameterValue |-> Override(key),
                                        UsePreviousValue |-> FALSE]>>
             /\ stackParams.pc = "thrown" =>
                   \A k \in 1 .. Len(stackParams.result.message) :
                      stackParams.result.message[k] # key

\* An empty string overrides a parameter that has a default and a previous value.
C24_Witness ==
    /\ ValuesResolved /\ stackParams.usePreviousParameters
    /\ \E key \in Declared :
          /\ Override(key) = Some("") /\ Deployed(key)
          /\ stackParams.formalParams[key].Default # Undefined
          /\ EntriesFor(key) = <<[ParameterKey |-> key, ParameterValue |-> Some(""),
                                  UsePreviousValue |-> FALSE]>>

\* C25 as stated: whenever an override is supplied for a parameter, the
\* parameters count as changed (hasChanges is truthy), for every previous
\* value and every default.
C25_OverrideAlwaysChanged ==
    (stackParams.pc = "compared"
        /\ \E key \in Declared : Override(key) # Undefined) => Changed

\* C25, amended: whenever an override is supplied that differs from the
\* value the deployed stack has for the parameter, or the stack has none,
\* the parameters count as changed, for every default; an override equal to
\* the deployed value does not count as a change of a parameter that is not
\* an SSM parameter without marker.
C25_DifferentOverrideChanged ==
    stackParams.pc = "compared" =>
       \A key \in Declared :
          Override(key) # Undefined =>
             /\ (~Deployed(key) \/ Override(key) # Some(stackParams.parameters[key]))
                   => Changed
             /\ (/\ Deployed(key)
                 /\ Override(key) = Some(stackParams.parameters[key])
                 /\ ~(IsSsm(key) /\ ~HasMarker(key))
                 /\ OthersUnchanged(key)) => stackParams.hasChanges = "false"

\* Overrides that differ from the deployed value, and one that equals it,
\* have been compared.
C25_Witness ==
    /\ stackParams.pc = "compared"
    /\ \E key \in Declared :
          /\ Override(key) = Some("") /\ Deployed(key)
          /\ stackParams.hasChanges = "true"

\* An override equal to the deployed value did not count as a change.
SameOverrideUnchanged ==
    /\ stackParams.pc = "compared"
    /\ \E key \in Declared :
          /\ Deployed(key) /\ Override(key) = Some(stackParams.parameters[key])
          /\ stackParams.hasChanges = "false"

\* C26: in updateExisting, with no override and a previous value present,
\* the API parameter list has for the parameter exactly the entry
\* {ParameterKey, UsePreviousValue: true}; and for a parameter that is not
\* an SSM parameter this does not count as a change, whether or not the
\* template declares a default.
C26_PreviousUsed ==
    stackParams.usePreviousParameters =>
       \A key \in Declared :
          (Override(key) = Undefined /\ Deployed(key)) =>
             /\ stackParams.pc # "thrown" \/ Cardinality(Declared) > 1
             /\ ValuesResolved =>
                   EntriesFor(key) = <<[ParameterKey |-> key, ParameterValue |-> Undefined,
                                        UsePreviousValue |-> TRUE]>>
             /\ (stackParams.pc = "compared" /\ ~IsSsm(key) /\ OthersUnchanged(key))
                   => stackParams.hasChanges = "false"

\* The previous value of a String parameter with a default was used, and
\* the parameters did not count as changed.
C26_Witness ==
    /\ stackParams.pc = "compared" /\ stackParams.usePreviousParameters
    /\ \E key \in Declared :
          /\ Override(key) = Undefined /\ Deployed(key) /\ ~IsSsm(key)
          /\ stackParams.formalParams[key].Default # Undefined
          /\ stackParams.hasChanges = "false"
          /\ Len(EntriesFor(key)) = 1

\* C27: with no override, no value in the deployed stack and a default in
\* the template, the parameter is omitted from the API parameter list and
\* the parameters count as changed.
C27_DefaultOmitted ==
    \A key \in Declared :
       (/\ Override(key) = Undefined /\ ~Deployed(key)
        /\ stackParams.formalParams[key].Default # Undefined) =>
          /\ stackParams.pc # "thrown" \/ Cardinality(Declared) > 1
          /\ ValuesResolved =>
                /\ EntriesFor(key) = <<>>
                /\ stackParams.values[key] = stackParams.formalParams[key].Default[1]
          /\ stackParams.pc = "compared" => Changed

\* A String parameter was left to its default and counted as changed.
C27_Witness ==
    /\ stackParams.pc = "compared" /\ stackParams.usePreviousParameters
    /\ \E key \in Declared :
          /\ Override(key) = Undefined /\ ~Deployed(key) /\ ~IsSsm(key)
          /\ stackParams.apiParameters = <<>>
          /\ stackParams.hasChanges = "true"

\* The parameter has no override, the deployed stack no value for it and
\* the template no default.
MissingValue(key) ==
    /\ Override(key) = Undefined /\ ~Deployed(key)
    /\ stackParams.formalParams[key].Default = Undefined

\* The resolution failed with the error that names the parameters without a
\* value, and the deployment was not submitted: deployStack has rejected, or
\* is about to reject, with that error.
RejectedForMissingValue ==
    /\ stackParams.pc = "thrown"
    /\ Len(stackParams.result.message) > 1
    /\ Head(stackParams.result.message) = DeployErrorMessages.missingValue \o ": "
    /\ \A key \in Declared :
          MissingValue(key) =>
             \E k \in 2 .. Len(stackParams.result.message) :
                stackParams.result.message[k] = key
    /\ deploy.submissions = 0
    /\ deploy.pc \in {"submit", "thrown"}
    /\ deploy.pc = "thrown" =>
          deploy.result = [kind |-> "error", message |-> DeployErrorMessages.missingValue]

\* C28 as stated: a declared parameter with no override, no previous value
\* and no default makes the resolution fail with the error 'missing a
\* value' that names the parameter, and the deploy is rejected before any
\* remote call is made.
C28_RejectedBeforeRemoteCalls ==
    (stackParams.pc \in {"resolved", "compared", "thrown"}
        /\ \E key \in Declared : MissingValue(key)) =>
       /\ RejectedForMissingValue
       /\ deploy.envAccesses = 0 /\ deploy.versionChecks = 0

\* C28, amended: a declared parameter with no override, no previous value
\* and no default makes the resolution fail with the error 'missing a
\* value' that names the parameter, and the deploy is rejected before the
\* change is submitted: after Deployments.deployStack has got access to
\* the environment and checked the bootstrap version, both remote calls.
C28_RejectedBeforeSubmission ==
    (stackParams.pc \in {"resolved", "compared", "thrown"}
        /\ \E key \in Declared : MissingValue(key)) =>
       /\ RejectedForMissingValue
       /\ deploy.envAccesses = 1 /\ deploy.versionChecks = 1

\* A deploy was rejected because TheParameter is missing a value.
C28_Witness ==
    /\ deploy.pc = "thrown" /\ stackParams.pc = "thrown"
    /\ MissingValue("TheParameter")
    /\ stackParams.result.message
          = <<"The following CloudFormation Parameters are missing a value: ",
              "TheParameter">>

\* C29: a parameter of an SSM type without the no-invalidate marker in its
\* description makes hasChanges answer 'ssm' whatever is supplied and
\* whatever the previous value, no value supplied and a value equal to the
\* previous one included.  With the marker, and a previous value that may be
\* used, hasChanges is false when no value is supplied or the value supplied
\* equals the previous one, and true when the value supplied differs (when
\* nothing but this parameter can make the parameters count as changed).
C29_SsmParameters ==
    stackParams.pc = "compared" =>
       \A key \in Declared :
          IsSsm(key) =>
             /\ ~HasMarker(key) => stackParams.hasChanges = "ssm"
             /\ (/\ HasMarker(key) /\ OthersUnchanged(key)
                 /\ stackParams.usePreviousParameters /\ Deployed(key)) =>
                   stackParams.hasChanges
                      = IF Override(key) \in {Undefined, Some(stackParams.parameters[key])}
                        THEN "false" ELSE "true"

\* An SSM parameter with the marker was given the value the stack has, and
\* did not count as changed.
C29_Witness ==
    /\ stackParams.pc = "compared" /\ stackParams.usePreviousParameters
    /\ \E key \in Declared :
          /\ IsSsm(key) /\ HasMarker(key) /\ Deployed(key)
          /\ Override(key) = Some(stackParams.parameters[key])
          /\ stackParams.hasChanges = "false"

\* An SSM parameter without the marker was given the value the stack has,
\* and hasChanges answered 'ssm'.
SsmAlwaysChanged ==
    /\ stackParams.pc = "compared"
    /\ \E key \in Declared :
          /\ IsSsm(key) /\ ~HasMarker(key) /\ Deployed(key)
          /\ Override(key) = Some(stackParams.parameters[key])
          /\ stackParams.hasChanges = "ssm"

RevertedFromOtherValue ==
    /\ stackParams.pc = "compared" /\ ~stackParams.usePreviousParameters
    /\ \E key \in Declared :
          /\ Override(key) = Undefined /\ Deployed(key)
          /\ stackParams.parameters[key] = "Foo"
          /\ stackParams.hasChanges = "true"

\* ------------------------------------------------- AccountAccessKeyCache

\* A bound of the model: the operations begun on one cache.
MaxOperations == 2

\* line 16  public static readonly MAX_ENTRIES = 1000
MAX_ENTRIES == 1000

\* Object.keys(map).length of a map held in two parts.
Size(map, others) == Cardinality(DOMAIN map) + others

\* The entry is assigned, but the map is never discarded.
putEntryNeverDiscards(map, others, accessKeyId, account) ==
    [map |-> Put(map, accessKeyId, account), others |-> others, discarded |-> FALSE]

\* lines 76-81  the map put() saves: the loaded map, or {} if that had
\* MAX_ENTRIES entries or more, with map[accessKeyId] = account
putEntry(map, others, accessKeyId, account) ==
    IF Size(map, others) >= MAX_ENTRIES
    THEN [map |-> Put(EmptyObject, accessKeyId, account), others |-> 0,
          discarded |-> TRUE]
    ELSE [map |-> Put(map, accessKeyId, account), others |-> others,
          discarded |-> FALSE]

\* lines 85-101  loadMap(): what fs.readJson answers for the file, given
\* whether the process may read it (code is "" when the read goes through).
\* A missing file is ENOENT and a file that is not JSON a SyntaxError: both,
\* and EACCES, give {}; any other error is thrown on.
loadMap(cacheFile, code) ==
    CASE code = "" /\ cacheFile.kind = "map" ->
            [threw |-> FALSE, map |-> cacheFile.map, others |-> cacheFile.others]
      [] code = "" /\ cacheFile.kind # "map" ->
            [threw |-> FALSE, map |-> EmptyObject, others |-> 0]
      [] code = "EACCES" ->
            [threw |-> FALSE, map |-> EmptyObject, others |-> 0]
      [] OTHER -> [threw |-> TRUE, map |-> EmptyObject, others |-> 0]

\* The caller's operation begins: the ghost fields follow.
Begin(p, op, accessKeyId, account) ==
    [accountCache EXCEPT
        !.started = @ + 1,
        !.overlapped = @ \/ \E q \in {1, 2} \ {p} :
                               accountCache.callers[q].pc \notin {"idle", "done"},
        !.callers[p] = [@ EXCEPT !.op = op, !.accessKeyId = accessKeyId,
                                 !.account = account, !.map = EmptyObject,
                                 !.others = 0, !.discarded = FALSE,
                                 !.result = [kind |-> "none", value |-> Undefined]]]

\* map[accessKeyId], or undefined
Lookup(map, accessKeyId) ==
    IF accessKeyId \in DOMAIN map THEN Some(map[accessKeyId]) ELSE Undefined

\* lines 33-36  constructor(filePath, debugFn): the file at filePath is
\* whatever earlier runs left there: nothing, something that is not JSON, or
\* a map of at most MAX_ENTRIES entries.
AccountAccessKeyCache(cacheFile) ==
    /\ accountCache.pc = "new"
    /\ accountCache' = [accountCache EXCEPT !.pc = "constructed",
                                            !.cacheFile = cacheFile]

\* The caller has no operation in flight and one more may begin.  Callers
\* are interchangeable: the second is taken when the first is busy.
Free(p) ==
    /\ accountCache.pc = "constructed"
    /\ accountCache.callers[p].pc \in {"idle", "done"}
    /\ accountCache.started < MaxOperations
    /\ p = 1 \/ accountCache.callers[1].pc \notin {"idle", "done"}

\* The caller's operation ends.
Finish(cache, p, kind, value) ==
    [cache EXCEPT !.callers[p] =
                     [NoAccountCache.callers[p] EXCEPT
                         !.pc = "done", !.op = cache.callers[p].op,
                         !.accessKeyId = cache.callers[p].accessKeyId,
                         !.result = [kind |-> kind, value |-> value]]]

\* lines 67-70  get(accessKeyId): the entry of the map loaded
get(p, accessKeyId, code) ==
    /\ Free(p)
    /\ LET begun == Begin(p, "get", accessKeyId, Undefined)
           map == loadMap(accountCache.cacheFile, code)
       IN  accountCache' =
              IF map.threw
              THEN Finish(begun, p, "thrown", Some(code))
              ELSE Finish([begun EXCEPT !.suppressed = @ \/ code # ""], p,
                          "returned", Lookup(map.map, accessKeyId))

\* lines 73-82  put(accessKeyId, account), up to the call of saveMap: called
\* by the user of the cache, or by fetch (line 60)
put(p, accessKeyId, account, code) ==
    /\ \/ Free(p)
       \/ /\ accountCache.callers[p].pc = "put"
          /\ accountCache.callers[p].accessKeyId = accessKeyId
          /\ accountCache.callers[p].account = Some(account)
    /\ LET begun == IF accountCache.callers[p].pc = "put"
                    THEN accountCache
                    ELSE Begin(p, "put", accessKeyId, Some(account))
           loaded == loadMap(accountCache.cacheFile, code)
           map == putEntry(loaded.map, loaded.others, accessKeyId, account)
       IN  accountCache' =
              IF loaded.threw
              THEN Finish(begun, p, "thrown", Some(code))
              ELSE [begun EXCEPT
                       !.suppressed = @ \/ code # "",
                       !.callers[p].pc = "ensureFile",
                       !.callers[p].map = map.map,
                       !.callers[p].others = map.others,
                       !.callers[p].discarded = map.discarded]

\* lines 103-115  saveMap(map): fs.ensureFile creates the file, empty, if it
\* is missing; fs.writeJson then writes the map (in one step here).  ENOENT,
\* EACCES and EROFS are swallowed, any other error is thrown on.  When saveMap returns, put returns (line 83), and so does a fetch
\* that called it, with the account (line 63).
saveMap(p, code) ==
    LET caller == accountCache.callers[p]
        returned ==
           [accountCache EXCEPT
               !.discards = @ \/ caller.discarded,
               !.latest = IF caller.discarded
                          THEN Put(EmptyObject, caller.accessKeyId, caller.account[1])
                          ELSE Put(@, caller.accessKeyId, caller.account[1])]
        value == IF caller.op = "fetch" THEN caller.account ELSE Undefined
    IN  /\ caller.pc \in {"ensureFile", "writeJson"}
        /\ accountCache' =
              CASE code \in {"EACCES", "EROFS"} ->
                      Finish([returned EXCEPT !.suppressed = TRUE], p, "returned", value)
                [] code = "EISDIR" -> Finish(accountCache, p, "thrown", Some(code))
                [] code = "" /\ caller.pc = "ensureFile" ->
                      [accountCache EXCEPT
                          !.callers[p].pc = "writeJson",
                          !.cacheFile = IF @.kind = "missing"
                                        THEN [@ EXCEPT !.kind = "corrupt"] ELSE @]
                [] OTHER ->
                      Finish([returned EXCEPT
                                 !.cacheFile = [kind |-> "map", map |-> caller.map,
                                                others |-> caller.others]],
                             p, "returned", value)

\* lines 49-55  fetch(accessKeyId, resolver): the cached account, if any
fetch(p, accessKeyId, code) ==
    /\ Free(p)
    /\ LET begun == Begin(p, "fetch", accessKeyId, Undefined)
           map == loadMap(accountCache.cacheFile, code)
           cached == Lookup(map.map, accessKeyId)
       IN  accountCache' =
              CASE map.threw -> Finish(begun, p, "thrown", Some(code))
                [] ~map.threw /\ cached # Undefined ->
                      Finish([begun EXCEPT !.suppressed = @ \/ code # ""], p,
                             "returned", cached)
                [] OTHER -> [begun EXCEPT !.suppressed = @ \/ code # "",
                                          !.callers[p].pc = "resolver"]

\* lines 57-63  const account = await resolver(): the account is put in the
\* cache if there is one; a resolver that throws ends the fetch
resolver(p, account, threw) ==
    /\ accountCache.callers[p].pc = "resolver"
    /\ accountCache' =
          CASE threw -> Finish(accountCache, p, "thrown", Some("resolver"))
            [] ~threw /\ account = Undefined ->
                  Finish(accountCache, p, "returned", Undefined)
            [] OTHER -> [accountCache EXCEPT !.callers[p].pc = "put",
                                             !.callers[p].account = account]

\* The operations on one cache file, by up to two callers at a time (two
\* operations of one process, or two processes that share the file).  The
\* callers use two access keys and two accounts; the file found holds
\* entries for some of these keys and none, or nearly or exactly MAX_ENTRIES
\* entries in all.
CacheNext ==
    \/ (accountCache.pc = "new"
           /\ LET Accounts == {[accountId |-> "111111111111", partition |-> "aws"]}
                  Maps == UNION {[keys -> Accounts] : keys \in SUBSET {"AKIA1", "AKIA2"}}
              IN  \E cacheFile \in
                        {[kind |-> "missing", map |-> EmptyObject, others |-> 0],
                         [kind |-> "corrupt", map |-> EmptyObject, others |-> 0]}
                           \cup {f \in [kind : {"map"}, map : Maps,
                                        others : {0, MAX_ENTRIES - 1}] :
                                    Size(f.map, f.others) <= MAX_ENTRIES} :
                     AccountAccessKeyCache(cacheFile))
           /\ UNCHANGED notAccountCacheVars
    \/ (\E p \in {1, 2}, accessKeyId \in {"AKIA1", "AKIA2"},
           code \in {"", "EACCES", "EISDIR"} : get(p, accessKeyId, code))
           /\ UNCHANGED notAccountCacheVars
    \/ (\E p \in {1, 2}, accessKeyId \in {"AKIA1", "AKIA2"},
           account \in {[accountId |-> "111111111111", partition |-> "aws"],
                        [accountId |-> "222222222222", partition |-> "aws"]},
           code \in {"", "EACCES", "EISDIR"} : put(p, accessKeyId, account, code))
           /\ UNCHANGED notAccountCacheVars
    \/ (\E p \in {1, 2}, code \in {"", "EROFS", "EISDIR"} : saveMap(p, code))
           /\ UNCHANGED notAccountCacheVars
    \/ (\E p \in {1, 2}, accessKeyId \in {"AKIA1", "AKIA2"},
           code \in {"", "EACCES", "EISDIR"} : fetch(p, accessKeyId, code))
           /\ UNCHANGED notAccountCacheVars
    \/ (\E p \in {1, 2}, threw \in BOOLEAN,
           account \in {Undefined, Some([accountId |-> "222222222222", partition |-> "aws"])} :
           resolver(p, account, threw))
           /\ UNCHANGED notAccountCacheVars

CacheSpec == Init /\ [][CacheNext]_vars

\* The entries of the cache file, in the two parts; a file that is missing
\* or not JSON has none.
Entries(cacheFile) ==
    IF cacheFile.kind = "map"
    THEN [map |-> cacheFile.map, others |-> cacheFile.others]
    ELSE [map |-> EmptyObject, others |-> 0]

\* This step is the return of a put of caller p (called directly or by
\* fetch).
PutReturns(p) ==
    /\ accountCache.callers[p].pc \in {"ensureFile", "writeJson"}
    /\ accountCache'.callers[p].pc = "done"
    /\ accountCache'.callers[p].result.kind = "returned"

\* This step is a get of caller p that returns.
GetReturns(p) ==
    /\ accountCache.callers[p].pc \in {"idle", "done"}
    /\ accountCache'.started = accountCache.started + 1
    /\ accountCache'.callers[p].op = "get"
    /\ accountCache'.callers[p].pc = "done"
    /\ accountCache'.callers[p].result.kind = "returned"

\* What put promises of the file when it returns, and get of its answer.
PutAndGetContract ==
    \A p \in {1, 2} :
       /\ PutReturns(p) =>
             LET before == Entries(accountCache.cacheFile)
                 after == Entries(accountCache'.cacheFile)
                 accessKeyId == accountCache.callers[p].accessKeyId
                 account == accountCache.callers[p].account[1]
             IN  IF Size(before.map, before.others) >= MAX_ENTRIES
                 THEN after = [map |-> Put(EmptyObject, accessKeyId, account),
                               others |-> 0]
                 ELSE after = [map |-> Put(before.map, accessKeyId, account),
                               others |-> before.others]
       /\ GetReturns(p) =>
             LET accessKeyId == accountCache'.callers[p].accessKeyId
             IN  accessKeyId \in DOMAIN accountCache.latest =>
                    accountCache'.callers[p].result.value =
                       Some(accountCache.latest[accessKeyId])

C39_NoLostUpdate ==
    LET first == accountCache.callers[1]
        second == accountCache.callers[2]
    IN  (/\ accountCache.started = 2 /\ accountCache.overlapped
         /\ ~accountCache.suppressed /\ ~accountCache.discards
         /\ first.pc = "done" /\ first.result.kind = "returned"
         /\ second.pc = "done" /\ second.result.kind = "returned"
         /\ first.accessKeyId # second.accessKeyId
         /\ {first.accessKeyId, second.accessKeyId} \subseteq DOMAIN accountCache.latest)
        => {first.accessKeyId, second.accessKeyId}
              \subseteq DOMAIN Entries(accountCache.cacheFile).map

\* ------------------------------------------------ deepEqual, dependsOnEqual

\* A bound of the model: the length of a DependsOn array.
MaxDependsOn == 2

\* lines 19-37, 78-80  deepEqual(lvalue, rvalue) of two strings: true when
\* they are === or Number() makes the same number of both (Number of a
\* string that is no numeral is NaN, which is not === to itself)
deepEqual(lvalue, rvalue) ==
    LET IsNaN(str) == str \notin {"1", "01"}
        Number(str) == CASE str = "1" -> 1 [] str = "01" -> 1 [] OTHER -> 0
    IN  \/ lvalue = rvalue
        \/ ~IsNaN(lvalue) /\ ~IsNaN(rvalue) /\ Number(lvalue) = Number(rvalue)

\* Two DependsOn values compared as the sets of the ids they hold.
dependsOnEqualAsSets(lvalue, rvalue) ==
    {lvalue.items[i] : i \in DOMAIN lvalue.items}
       = {rvalue.items[i] : i \in DOMAIN rvalue.items}

\* lines 91-120  dependsOnEqual(lvalue, rvalue).  The inner loop (109-114)
\* ends at its break in the first round, with j = 0.
dependsOnEqual(lvalue, rvalue) ==
    CASE lvalue.isArray # rvalue.isArray ->
            LET array == IF lvalue.isArray THEN lvalue.items ELSE rvalue.items
                nonArray == IF lvalue.isArray THEN rvalue.items[1] ELSE lvalue.items[1]
            IN  Len(array) = 1 /\ deepEqual(array[1], nonArray)
      [] lvalue.isArray /\ rvalue.isArray ->
            /\ Len(lvalue.items) = Len(rvalue.items)
            /\ \A i \in 1 .. Len(lvalue.items) :
                  ~(/\ ~deepEqual(lvalue.items[i], rvalue.items[1])
                    /\ 1 = Len(lvalue.items))
      [] OTHER -> FALSE

\* lines 52-77  deepEqual of two objects whose one key is DependsOn, each a
\* single logical id or an array of up to MaxDependsOn of them.  The ids are
\* names, or numerals (which Number() reads).
DiffNext ==
    (diff.pc = "idle"
        /\ LET Ids == {"Bucket", "Queue", "Topic", "1", "01"}
               Values == [isArray : {FALSE}, items : SeqUpTo(Ids, 1) \ {<<>>}]
                            \cup [isArray : {TRUE}, items : SeqUpTo(Ids, MaxDependsOn)]
           IN  \E lvalue \in Values, rvalue \in Values :
                  diff' = [pc |-> "returned", lvalue |-> lvalue, rvalue |-> rvalue,
                           result |-> dependsOnEqual(lvalue, rvalue)])
       /\ UNCHANGED notDiffVars

DiffSpec == Init /\ [][DiffNext]_vars

\* C32: dependsOnEqual answers true exactly when its operands are equivalent
\* DependsOn values: a single id and the one-element array holding it, two
\* arrays with the same elements in any order, two identical single ids;
\* operands that name different resources are not equal.  (Stated for
\* operands without repeated ids and with ids that are names.)
C32_DependsOnEquivalence ==
    LET NoRepeats(v) ==
           \A i, j \in DOMAIN v.items : v.items[i] = v.items[j] => i = j
        Names(v) == \A i \in DOMAIN v.items : v.items[i] \in {"Bucket", "Queue", "Topic"}
    IN  (/\ diff.pc = "returned"
         /\ NoRepeats(diff.lvalue) /\ NoRepeats(diff.rvalue)
         /\ Names(diff.lvalue) /\ Names(diff.rvalue))
        => (diff.result <=> dependsOnEqualAsSets(diff.lvalue, diff.rvalue))

====
